---- MODULE Spec2Model ----
(***************************************************************************)
(* The peer session dispatcher of the bitcoin node (net/p2pclient.rs):     *)
(* the shared State (peers, tx_store, block_store, pending_inv), the Peer  *)
(* records, and one action per entry point of the MessageHandler           *)
(* (new_connection, and handle dispatched on the frame's command).         *)
(* A handler runs to completion under the State mutex, so every handler is *)
(* one atomic action; the frames it queues on the transport channel are    *)
(* collected, in program order, in `out`.                                  *)
(***************************************************************************)
EXTENDS Integers, Sequences, FiniteSets, TLC

VARIABLES
    peers,        \* State.peers: HashMap<Token, Peer>, a function on the known tokens
    tx_store,     \* State.tx_store: the hashes of the stored transactions
    block_store,  \* State.block_store: the chain, one [hash, data] per height
    pending_inv,  \* State.pending_inv: ExpiringCache, hash -> absolute expiry
    now,          \* time::now(), in seconds
    alive,        \* FALSE once a handler has panicked on the event-loop thread
    poisoned,     \* TRUE once a handler has panicked while holding the State mutex
    out,          \* the channel messages queued by the last entry point, in order
    last,         \* the entry point the event loop has just run, and its input
    pre,          \* the State as it was when that entry point was called
    getblocks_sent_at,  \* per token, when the last getblocks frame was queued to it
                        \* with no inv from it handled since (-1: there is none)
    steps,        \* the number of events (entry points run, clock ticks) left in the run
    codec,        \* the codec (net/messages.rs) at work: the value handed to the
                  \* Serializer, its buffer, and what the Deserializer made of it
    script,       \* the Script VM (parser/op_codes.rs) at work: the Context, the
                  \* interpreter's state and what it has executed
    threads       \* handlers run on several threads: the holder of the State
                  \* mutex and, per thread, its message and its place in the handler

node_vars == <<peers, tx_store, block_store, pending_inv, now, alive, poisoned, out, last,
               pre, getblocks_sent_at, steps>>

vars == <<peers, tx_store, block_store, pending_inv, now, alive, poisoned, out, last, pre,
          getblocks_sent_at, steps, codec, script, threads>>

state_vars == <<peers, tx_store, block_store, pending_inv>>

(***************************************************************************)
(* Bounds of the model.                                                    *)
(***************************************************************************)
MaxTokens == 2
MaxNonce == 1
MaxSteps == 3
InitChainLen == 3

Tokens == 1..MaxTokens
Nonces == 0..MaxNonce

(***************************************************************************)
(* Program constants.                                                      *)
(***************************************************************************)
VERSION == 70001
PendingInvLimit == 100
InvReplyLimit == 500
FrameHeaderLen == 24
WaitingForBlocksSeconds == 15
PendingInvTtlSeconds == 120
ZeroHash == 0


\* HashMap::insert: the map with key k bound to value v.
Put(m, k, v) == (k :> v) @@ m

\* Option<T>: None is the empty sequence, Some(v) the one-element sequence.
None == <<>>
Some(v) == <<v>>

(***************************************************************************)
(* Timeout<bool> (net/expiring_cache.rs): a value that falls back to the   *)
(* default, false, once its duration has passed.                           *)
(***************************************************************************)
Timeout_new == [value |-> FALSE, expires |-> 0]
Timeout_set(v, seconds) == [value |-> v, expires |-> now + seconds]
Timeout_get(t) == IF now < t.expires THEN t.value ELSE FALSE

(***************************************************************************)
(* ExpiringCache<BitcoinHash> (net/expiring_cache.rs): a set whose entries *)
(* carry an absolute expiry; an expired entry counts as absent.            *)
(***************************************************************************)
ExpiringCache_new == <<>>
ExpiringCache_insert(c, k) == Put(c, k, now + PendingInvTtlSeconds)
ExpiringCache_has(c, k) == k \in DOMAIN c /\ now < c[k]
ExpiringCache_remove(c, k) == [x \in DOMAIN c \ {k} |-> c[x]]
ExpiringCache_len(c) == Cardinality({k \in DOMAIN c : now < c[k]})
ExpiringCache_sweep(c) == [x \in {k \in DOMAIN c : now < c[k]} |-> c[x]]

(***************************************************************************)
(* BlockStore (net/store.rs): the chain as a sequence indexed by height,   *)
(* the genesis block at height 0.                                          *)
(***************************************************************************)
BlockStore_hashes(store) == {store[i].hash : i \in 1..Len(store)}
BlockStore_height(store) == Len(store) - 1
BlockStore_has(store, hash) == hash \in BlockStore_hashes(store)
BlockStore_get_height(store, hash) ==
    IF BlockStore_has(store, hash)
    THEN Some((CHOOSE i \in 1..Len(store) : store[i].hash = hash) - 1)
    ELSE None
BlockStore_get_hash_at_height(store, h) ==
    IF h + 1 \in 1..Len(store) THEN Some(store[h + 1].hash) ELSE None
BlockStore_get(store, hash) ==
    IF BlockStore_has(store, hash)
    THEN Some(store[CHOOSE i \in 1..Len(store) : store[i].hash = hash])
    ELSE None
BlockStore_insert(store, hash, data) ==
    IF BlockStore_has(store, hash) THEN store
    ELSE Append(store, [hash |-> hash, data |-> data])

\* The locator heights: the tip, then back one at a time for ten entries,
\* then doubling the stride, always ending on the genesis block.
RECURSIVE LocatorHeights(_, _, _)
LocatorHeights(h, step, count) ==
    IF h <= 0 THEN <<0>>
    ELSE <<h>> \o LocatorHeights(h - step, IF count >= 10 THEN 2 * step ELSE step, count + 1)
BlockStore_block_locators(store) ==
    LET hs == LocatorHeights(BlockStore_height(store), 1, 1)
    IN [i \in 1..Len(hs) |-> store[hs[i] + 1].hash]

(***************************************************************************)
(* Peer (p2pclient.rs).                                                    *)
(***************************************************************************)
new_inbound(version) ==
    [ping_time |-> now,
     ping |-> -1,
     ping_data |-> 0,
     version |-> Some(version),
     verak_received |-> FALSE,
     connection_type |-> "Inbound",
     waiting_for_blocks |-> Timeout_new]

new_outbound ==
    [ping_time |-> now,
     ping |-> -1,
     ping_data |-> 0,
     version |-> None,
     verak_received |-> FALSE,
     connection_type |-> "Outbound",
     waiting_for_blocks |-> Timeout_new]

\* sent_getblocks with a slip: the wait is set without any time to run.
sent_getblocks_no_time(peer) ==
    [peer EXCEPT !.waiting_for_blocks = Timeout_set(TRUE, 0)]

sent_getblocks(peer) ==
    [peer EXCEPT !.waiting_for_blocks = Timeout_set(TRUE, WaitingForBlocksSeconds)]

\* got_inv with a slip: the wait for blocks is left as it was.
got_inv_keeps_waiting(peer) == peer

got_inv(peer) == [peer EXCEPT !.waiting_for_blocks = Timeout_set(FALSE, 0)]

is_waiting_for_blocks(peer) == Timeout_get(peer.waiting_for_blocks)

received_verack(peer) == [peer EXCEPT !.verak_received = TRUE]

\* sent_ping with a slip: the nonce is recorded without the time of sending.
sent_ping_keeps_time(peer, ping_data) == [peer EXCEPT !.ping_data = ping_data]

sent_ping(peer, ping_data) == [peer EXCEPT !.ping_time = now, !.ping_data = ping_data]

got_pong(peer, pong_data) ==
    IF peer.ping_data = pong_data
    THEN [peer EXCEPT !.ping = now - peer.ping_time]
    ELSE peer

(***************************************************************************)
(* State (p2pclient.rs).                                                   *)
(***************************************************************************)
\* add_peer with a slip: a newly inserted inbound peer is reported as Outbound.
add_peer_reports_outbound(ps, token, version) ==
    IF token \in DOMAIN ps
    THEN [peers |-> [ps EXCEPT ![token].version = version],
          connection_type |-> "Outbound"]
    ELSE IF version # None
    THEN [peers |-> Put(ps, token, new_inbound(version[1])),
          connection_type |-> "Outbound"]
    ELSE [peers |-> Put(ps, token, new_outbound),
          connection_type |-> "Outbound"]

\* add_peer with a slip: a token that is already in peers gets a fresh entry.
add_peer_always_inserts(ps, token, version) ==
    IF version # None
    THEN [peers |-> Put(ps, token, new_inbound(version[1])),
          connection_type |-> IF token \in DOMAIN ps THEN "Outbound" ELSE "Inbound"]
    ELSE [peers |-> Put(ps, token, new_outbound),
          connection_type |-> "Outbound"]

\* add_peer: the new peers map and the connection type it returns.
add_peer(ps, token, version) ==
    IF token \in DOMAIN ps
    THEN [peers |-> [ps EXCEPT ![token].version = version],
          connection_type |-> "Outbound"]
    ELSE IF version # None
    THEN [peers |-> Put(ps, token, new_inbound(version[1])),
          connection_type |-> "Inbound"]
    ELSE [peers |-> Put(ps, token, new_outbound),
          connection_type |-> "Outbound"]

\* is_pending_inv with a slip: no hash is ever reported as pending.
is_pending_inv_never(pending, hash) == FALSE

is_pending_inv(pending, hash) == ExpiringCache_has(pending, hash)
add_inv(pending, hash) == ExpiringCache_insert(pending, hash)
\* received_data with a slip: the pending entry is kept.
received_data_keeps_entry(pending, hash) == pending
received_data(pending, hash) == ExpiringCache_remove(pending, hash)
pending_inv_len(pending) == ExpiringCache_len(pending)
has_tx(txs, hash) == hash \in DOMAIN txs
add_tx(txs, hash, tx) == Put(txs, hash, tx)
has_block(store, hash) == BlockStore_has(store, hash)
block_height(store, hash) == BlockStore_get_height(store, hash)
get_hash_at_height(store, h) == BlockStore_get_hash_at_height(store, h)
add_block(store, hash, data) == BlockStore_insert(store, hash, data)

(***************************************************************************)
(* Messages.  A frame on the wire is [network_type, command, payload]; a   *)
(* message on the transport channel is SendMessage(token, frame) or        *)
(* Connect(address).                                                       *)
(***************************************************************************)
OurNetwork == "TestNet3"
NoPayload == [empty |-> TRUE]
OurAddress == [ip |-> "0:0:0:0:0:ffff:c0a8:3865", port |-> 18334]

send_message(command, token, message) ==
    [kind |-> "SendMessage", token |-> token,
     frame |-> [network_type |-> OurNetwork, command |-> command, payload |-> message]]

InventoryVector(type_, hash) == [type_ |-> type_, hash |-> hash]

generate_version_message(recipient_ip, start_height, nonce) ==
    [version |-> VERSION,
     services |-> TRUE,
     timestamp |-> now,
     addr_recv |-> recipient_ip,
     addr_from |-> OurAddress,
     nonce |-> nonce,
     user_agent |-> "/Agi:0.0.1/",
     start_height |-> start_height,
     relay |-> TRUE]

\* get_blocks with a slip: blocks are requested even while the peer is waited for.
get_blocks_no_wait(ps, pending, store, token) ==
    IF pending_inv_len(pending) > PendingInvLimit
    THEN [peers |-> ps, frames |-> <<>>, panicked |-> FALSE]
    ELSE IF token \notin DOMAIN ps
    THEN [peers |-> ps, frames |-> <<>>, panicked |-> TRUE]
    ELSE [peers |-> [ps EXCEPT ![token] = sent_getblocks(@)],
          frames |-> <<send_message("getblocks", token,
                          [version |-> VERSION,
                           block_locators |-> BlockStore_block_locators(store),
                           hash_stop |-> ZeroHash])>>,
          panicked |-> FALSE]

\* get_blocks with a slip: no backpressure check.
get_blocks_no_backpressure(ps, pending, store, token) ==
    IF token \notin DOMAIN ps
    THEN [peers |-> ps, frames |-> <<>>, panicked |-> TRUE]
    ELSE IF is_waiting_for_blocks(ps[token])
    THEN [peers |-> ps, frames |-> <<>>, panicked |-> FALSE]
    ELSE [peers |-> [ps EXCEPT ![token] = sent_getblocks(@)],
          frames |-> <<send_message("getblocks", token,
                          [version |-> VERSION,
                           block_locators |-> BlockStore_block_locators(store),
                           hash_stop |-> ZeroHash])>>,
          panicked |-> FALSE]

\* get_blocks: the peers map it leaves, the frames it queues, and whether it
\* panicked on an unknown token.
get_blocks(ps, pending, store, token) ==
    IF pending_inv_len(pending) > PendingInvLimit
    THEN [peers |-> ps, frames |-> <<>>, panicked |-> FALSE]
    ELSE IF token \notin DOMAIN ps
    THEN [peers |-> ps, frames |-> <<>>, panicked |-> TRUE]
    ELSE IF is_waiting_for_blocks(ps[token])
    THEN [peers |-> ps, frames |-> <<>>, panicked |-> FALSE]
    ELSE [peers |-> [ps EXCEPT ![token] = sent_getblocks(@)],
          frames |-> <<send_message("getblocks", token,
                          [version |-> VERSION,
                           block_locators |-> BlockStore_block_locators(store),
                           hash_stop |-> ZeroHash])>>,
          panicked |-> FALSE]

\* ping with a slip: the frame carries a nonce other than the recorded one.
ping_other_nonce(ps, token, nonce) ==
    [peers |-> [ps EXCEPT ![token] = sent_ping(@, nonce)],
     frames |-> <<send_message("ping", token, [nonce |-> (nonce + 1) % (MaxNonce + 2)])>>]

\* ping: the peers map it leaves and the frame it queues.
ping(ps, token, nonce) ==
    [peers |-> [ps EXCEPT ![token] = sent_ping(@, nonce)],
     frames |-> <<send_message("ping", token, [nonce |-> nonce])>>]

(***************************************************************************)
(* Decoding of the bodies whose codec is outside net/p2pclient.rs.  A tx   *)
(* or block body is a byte string whose first byte stands for its double   *)
(* SHA-256 hash; a block body is BlockBodyLen bytes long.                  *)
(***************************************************************************)
BlockBodyLen == 2
FrameHeader == [i \in 1..FrameHeaderLen |-> 200 + i]
RawFrame(body) == FrameHeader \o body
BlockMessage_deserialize(body) ==
    IF Len(body) >= BlockBodyLen THEN Some([bytes |-> SubSeq(body, 1, BlockBodyLen)]) ELSE None
BlockMessage_hash(message) == message.bytes[1]
TxMessage_hash(message) == message.bytes[1]

(***************************************************************************)
(* The event loop: it is idle between two events, runs one entry point to  *)
(* completion, and then hands the queued channel messages to the transport.*)
(***************************************************************************)
Idle == alive /\ last.op = "idle" /\ steps > 0

NoLast == [op |-> "idle"]
NoCodec == [op |-> "idle"]
NoScript == [status |-> "idle"]
NoThreads == [mutex |-> 0]
NoPre == [peers |-> <<>>, tx_store |-> <<>>, block_store |-> <<>>, pending_inv |-> <<>>,
          getblocks_sent_at |-> <<>>]

IsFrame(m, token, command) ==
    /\ m.kind = "SendMessage"
    /\ m.token = token
    /\ m.frame.network_type = OurNetwork
    /\ m.frame.command = command

\* The bookkeeping of an entry point that ran on a frame (or connection) of token,
\* once the messages it queues, out', are known.
Ran(op, token, message) ==
    /\ last' = [op |-> op, token |-> token, message |-> message]
    /\ pre' = [peers |-> peers, tx_store |-> tx_store, block_store |-> block_store,
               pending_inv |-> pending_inv, getblocks_sent_at |-> getblocks_sent_at]
    /\ getblocks_sent_at' =
           [t \in Tokens |->
               IF \E i \in 1..Len(out') : IsFrame(out'[i], t, "getblocks") THEN now
               ELSE IF op = "inv" /\ token = t /\ t \in DOMAIN peers THEN -1
               ELSE getblocks_sent_at[t]]
    /\ steps' = steps - 1
    /\ UNCHANGED <<codec, script, threads>>

\* A panic unwinds the event-loop thread; with the State lock held it poisons the mutex.
Returned == alive' = alive /\ poisoned' = poisoned
Panicked(locked) == alive' = FALSE /\ poisoned' = (poisoned \/ locked)

new_connection(token, addr, nonce) ==
    /\ Idle
    /\ LET r == add_peer(peers, token, None)
           ip_address == [ip |-> addr.ip, port |-> addr.port]
           version == generate_version_message(ip_address,
                                               BlockStore_height(block_store), nonce)
       IN /\ peers' = r.peers
          /\ out' = <<send_message("version", token, version)>>
    /\ Ran("new_connection", token, addr)
    /\ Returned
    /\ UNCHANGED <<tx_store, block_store, pending_inv, now>>

\* handle_version with a slip: our version is sent whatever the connection type.
handle_version_always_replies(token, message, nonce) ==
    /\ Idle
    /\ LET version == generate_version_message(message.addr_recv,
                                               BlockStore_height(block_store), nonce)
           r == add_peer(peers, token, Some(message))
       IN /\ peers' = r.peers
          /\ out' = <<send_message("version", token, version),
                      send_message("verack", token, NoPayload)>>
    /\ Ran("version", token, message)
    /\ Returned
    /\ UNCHANGED <<tx_store, block_store, pending_inv, now>>

handle_version(token, message, nonce) ==
    /\ Idle
    /\ LET version == generate_version_message(message.addr_recv,
                                               BlockStore_height(block_store), nonce)
           r == add_peer(peers, token, Some(message))
       IN /\ peers' = r.peers
          /\ out' = (IF r.connection_type = "Inbound"
                     THEN <<send_message("version", token, version)>>
                     ELSE <<>>)
                    \o <<send_message("verack", token, NoPayload)>>
    /\ Ran("version", token, message)
    /\ Returned
    /\ UNCHANGED <<tx_store, block_store, pending_inv, now>>

handle_verack(token, nonce) ==
    /\ Idle
    /\ IF token \notin DOMAIN peers
       THEN /\ Panicked(TRUE)
            /\ out' = <<>>
            /\ UNCHANGED peers
       ELSE LET received == [peers EXCEPT ![token] = received_verack(@)]
                gb == get_blocks(received, pending_inv, block_store, token)
                pg == ping(gb.peers, token, nonce)
            IN /\ peers' = pg.peers
               /\ out' = <<send_message("getaddr", token, NoPayload)>>
                         \o gb.frames \o pg.frames
               /\ Returned
    /\ Ran("verack", token, NoPayload)
    /\ UNCHANGED <<tx_store, block_store, pending_inv, now>>

handle_tx(token, message) ==
    /\ Idle
    /\ LET gb == get_blocks(peers, pending_inv, block_store, token)
       IN /\ tx_store' = add_tx(tx_store, TxMessage_hash(message), message)
          /\ peers' = gb.peers
          /\ out' = gb.frames
          /\ IF gb.panicked THEN Panicked(TRUE) ELSE Returned
    /\ Ran("tx", token, message)
    /\ UNCHANGED <<block_store, pending_inv, now>>

\* handle_block with a slip: the block is stored with the whole frame, header included.
handle_block_keeps_header(token, data) ==
    /\ Idle
    /\ LET body == SubSeq(data, FrameHeaderLen + 1, Len(data))
           decoded == BlockMessage_deserialize(body)
       IN IF decoded = None
          THEN /\ Returned
               /\ out' = <<>>
               /\ UNCHANGED state_vars
          ELSE IF Len(body) # BlockBodyLen
          THEN /\ Panicked(FALSE)
               /\ out' = <<>>
               /\ UNCHANGED state_vars
          ELSE LET hash == BlockMessage_hash(decoded[1])
                   pending == received_data(pending_inv, hash)
                   store == add_block(block_store, hash, data)
                   gb == get_blocks(peers, pending, store, token)
               IN /\ pending_inv' = pending
                  /\ block_store' = store
                  /\ peers' = gb.peers
                  /\ out' = gb.frames
                  /\ IF gb.panicked THEN Panicked(TRUE) ELSE Returned
                  /\ UNCHANGED tx_store
    /\ Ran("block", token, data)
    /\ UNCHANGED now

\* handle_command's Block arm and handle_block; data is the whole frame.
handle_block(token, data) ==
    /\ Idle
    /\ LET body == SubSeq(data, FrameHeaderLen + 1, Len(data))
           decoded == BlockMessage_deserialize(body)
       IN IF decoded = None
          THEN /\ Returned
               /\ out' = <<>>
               /\ UNCHANGED state_vars
          ELSE IF Len(body) # BlockBodyLen
          THEN /\ Panicked(FALSE)
               /\ out' = <<>>
               /\ UNCHANGED state_vars
          ELSE LET hash == BlockMessage_hash(decoded[1])
                   pending == received_data(pending_inv, hash)
                   store == add_block(block_store, hash,
                                      SubSeq(data, FrameHeaderLen + 1, Len(data)))
                   gb == get_blocks(peers, pending, store, token)
               IN /\ pending_inv' = pending
                  /\ block_store' = store
                  /\ peers' = gb.peers
                  /\ out' = gb.frames
                  /\ IF gb.panicked THEN Panicked(TRUE) ELSE Returned
                  /\ UNCHANGED tx_store
    /\ Ran("block", token, data)
    /\ UNCHANGED now

\* handle_inv_entry with a slip: a block is requested even when it is pending.
handle_inv_entry_ignores_pending(inv, acc) ==
    IF inv.type_ = "MSG_TX"
    THEN IF ~has_tx(tx_store, inv.hash)
         THEN [acc EXCEPT !.new_data = Append(@, InventoryVector("MSG_TX", inv.hash))]
         ELSE acc
    ELSE IF inv.type_ = "MSG_BLOCK"
    THEN IF ~has_block(block_store, inv.hash)
         THEN [pending_inv |-> add_inv(acc.pending_inv, inv.hash),
               new_data |-> Append(acc.new_data, InventoryVector("MSG_BLOCK", inv.hash))]
         ELSE acc
    ELSE acc

\* One iteration of handle_inv's loop on the entry inv: acc is the pending cache
\* and the inventory requested so far.
handle_inv_entry(inv, acc) ==
    IF inv.type_ = "MSG_TX"
    THEN IF ~has_tx(tx_store, inv.hash)
         THEN [acc EXCEPT !.new_data = Append(@, InventoryVector("MSG_TX", inv.hash))]
         ELSE acc
    ELSE IF inv.type_ = "MSG_BLOCK"
    THEN IF ~has_block(block_store, inv.hash) /\ ~is_pending_inv(acc.pending_inv, inv.hash)
         THEN [pending_inv |-> add_inv(acc.pending_inv, inv.hash),
               new_data |-> Append(acc.new_data, InventoryVector("MSG_BLOCK", inv.hash))]
         ELSE acc
    ELSE acc

\* The loop of handle_inv over the entries lo..hi, in order.  The range is split
\* in halves to keep the evaluation shallow; the test on the first half's result
\* is always true and only makes TLC evaluate that half before the second.
RECURSIVE handle_inv_loop(_, _, _, _)
handle_inv_loop(inventory, lo, hi, acc) ==
    IF lo > hi THEN acc
    ELSE IF lo = hi THEN handle_inv_entry(inventory[lo], acc)
    ELSE LET mid == (lo + hi) \div 2
             first == handle_inv_loop(inventory, lo, mid, acc)
         IN IF Len(first.new_data) >= 0
            THEN handle_inv_loop(inventory, mid + 1, hi, first)
            ELSE first

handle_inv(token, message) ==
    /\ Idle
    /\ LET r == handle_inv_loop(message.inventory, 1, Len(message.inventory),
                                [pending_inv |-> pending_inv, new_data |-> <<>>])
       IN /\ pending_inv' = r.pending_inv
          /\ out' = <<send_message("getdata", token, [inventory |-> r.new_data])>>
    /\ IF token \notin DOMAIN peers
       THEN /\ Panicked(TRUE)
            /\ UNCHANGED peers
       ELSE /\ peers' = [peers EXCEPT ![token] = got_inv(@)]
            /\ Returned
    /\ Ran("inv", token, message)
    /\ UNCHANGED <<tx_store, block_store, now>>

handle_pong(token, message) ==
    /\ Idle
    /\ peers' = IF token \in DOMAIN peers
                THEN [peers EXCEPT ![token] = got_pong(@, message.nonce)]
                ELSE peers
    /\ out' = <<>>
    /\ Ran("pong", token, message)
    /\ Returned
    /\ UNCHANGED <<tx_store, block_store, pending_inv, now>>

\* handle_ping with a slip: the reply goes out as a ping, not as a pong.
handle_ping_echoes_ping(token, message) ==
    /\ Idle
    /\ out' = <<send_message("ping", token, message)>>
    /\ Ran("ping", token, message)
    /\ Returned
    /\ UNCHANGED <<state_vars, now>>

handle_ping(token, message) ==
    /\ Idle
    /\ out' = <<send_message("pong", token, message)>>
    /\ Ran("ping", token, message)
    /\ Returned
    /\ UNCHANGED <<state_vars, now>>

\* One iteration of send_inv's loop at height h: acc is the inventory so far and
\* whether the loop has hit a break.
send_inv_height(store, h, hash_stop, acc) ==
    LET hash == get_hash_at_height(store, h)
    IN IF hash = None
       THEN [acc EXCEPT !.done = TRUE]
       ELSE [inv |-> Append(acc.inv, InventoryVector("MSG_BLOCK", hash[1])),
             done |-> (hash_stop = hash[1])]

\* The loop of send_inv over the heights lo..hi, in order, up to its first break
\* (split in halves to keep the evaluation shallow).
RECURSIVE send_inv_loop(_, _, _, _, _)
send_inv_loop(store, lo, hi, hash_stop, acc) ==
    IF lo > hi \/ acc.done THEN acc
    ELSE IF lo = hi THEN send_inv_height(store, lo, hash_stop, acc)
    ELSE LET mid == (lo + hi) \div 2
         IN send_inv_loop(store, mid + 1, hi, hash_stop,
                          send_inv_loop(store, lo, mid, hash_stop, acc))

\* send_inv with a slip: the loop runs over one height too many.
send_inv_one_too_many(store, hash_start, hash_stop, token) ==
    LET height == block_height(store, hash_start)[1]
        inv == send_inv_loop(store, height, height + InvReplyLimit, hash_stop,
                             [inv |-> <<>>, done |-> FALSE]).inv
    IN IF Len(inv) > 0
       THEN <<send_message("inv", token, [inventory |-> inv])>>
       ELSE <<>>

\* send_inv: the frames it queues.
send_inv(store, hash_start, hash_stop, token) ==
    LET height == block_height(store, hash_start)[1]
        inv == send_inv_loop(store, height, height + InvReplyLimit - 1, hash_stop,
                             [inv |-> <<>>, done |-> FALSE]).inv
    IN IF Len(inv) > 0
       THEN <<send_message("inv", token, [inventory |-> inv])>>
       ELSE <<>>

\* The loop of handle_getblocks from locator i on: the frames it queues.
RECURSIVE handle_getblocks_loop(_, _, _, _)
handle_getblocks_loop(store, message, i, token) ==
    IF i > Len(message.block_locators) THEN <<>>
    ELSE IF block_height(store, message.block_locators[i]) # None
    THEN send_inv(store, message.block_locators[i], message.hash_stop, token)
    ELSE handle_getblocks_loop(store, message, i + 1, token)

handle_getblocks(token, message) ==
    /\ Idle
    /\ out' = handle_getblocks_loop(block_store, message, 1, token)
    /\ Ran("getblocks", token, message)
    /\ Returned
    /\ UNCHANGED <<state_vars, now>>

\* handle_command's check of the header's magic against the configured network.
handle_wrong_network(token, network_type, command) ==
    /\ Idle
    /\ network_type # OurNetwork
    /\ out' = <<>>
    /\ Ran("wrong_network", token, [network_type |-> network_type, command |-> command])
    /\ Returned
    /\ UNCHANGED <<state_vars, now>>

\* State::get_block.
get_block(store, hash) == BlockStore_get(store, hash)

\* One iteration of handle_getdata's loop on the entry inv: acc is the frames
\* queued so far and whether the loop has hit unimplemented!().
handle_getdata_entry(store, inv, token, acc) ==
    IF inv.type_ = "MSG_TX"
    THEN [acc EXCEPT !.panicked = TRUE]
    ELSE IF inv.type_ = "MSG_BLOCK"
    THEN IF get_block(store, inv.hash) # None
         THEN [acc EXCEPT !.frames =
                  Append(@, send_message("block", token, get_block(store, inv.hash)[1]))]
         ELSE acc
    ELSE acc

RECURSIVE handle_getdata_loop(_, _, _, _, _)
handle_getdata_loop(store, inventory, i, token, acc) ==
    IF i > Len(inventory) \/ acc.panicked THEN acc
    ELSE handle_getdata_loop(store, inventory, i + 1, token,
                             handle_getdata_entry(store, inventory[i], token, acc))

handle_getdata(token, message) ==
    /\ Idle
    /\ LET r == handle_getdata_loop(block_store, message.inventory, 1, token,
                                    [frames |-> <<>>, panicked |-> FALSE])
       IN /\ out' = r.frames
          /\ IF r.panicked THEN Panicked(TRUE) ELSE Returned
    /\ Ran("getdata", token, message)
    /\ UNCHANGED <<state_vars, now>>

\* ShortFormatTm: a time as whole seconds in 32 bits (two 16-bit halves).
ShortFormatTm_new(tm) == (tm % 65536) + 65536 * ((tm \div 65536) % 65536)

\* The orders in which a HashMap may hand out the keys in S.
Orders(S) == {f \in [1..Cardinality(S) -> S] : \A i, j \in 1..Cardinality(S) : f[i] = f[j] => i = j}

\* handle_getaddr with a slip: a peer is listed whether or not its version is known.
handle_getaddr_lists_all(token) ==
    /\ Idle
    /\ \E order \in Orders(DOMAIN peers) :
           out' = <<send_message("addr", token,
                       [addr_list |->
                           [i \in 1..Len(order) |->
                               [time |-> ShortFormatTm_new(peers[order[i]].ping_time),
                                address |-> IF peers[order[i]].version # None
                                            THEN peers[order[i]].version[1].addr_from
                                            ELSE OurAddress]]])>>
    /\ Ran("getaddr", token, NoPayload)
    /\ Returned
    /\ UNCHANGED <<state_vars, now>>

handle_getaddr(token) ==
    /\ Idle
    /\ \E order \in Orders({t \in DOMAIN peers : peers[t].version # None}) :
           out' = <<send_message("addr", token,
                       [addr_list |->
                           [i \in 1..Len(order) |->
                               [time |-> ShortFormatTm_new(peers[order[i]].ping_time),
                                address |-> peers[order[i]].version[1].addr_from]]])>>
    /\ Ran("getaddr", token, NoPayload)
    /\ Returned
    /\ UNCHANGED <<state_vars, now>>

\* handle_headers and handle_notfound print the message and panic; neither
\* takes the State lock.
handle_headers(token, message) ==
    /\ Idle
    /\ out' = <<>>
    /\ Ran("headers", token, message)
    /\ Panicked(FALSE)
    /\ UNCHANGED <<state_vars, now>>

handle_notfound(token, message) ==
    /\ Idle
    /\ out' = <<>>
    /\ Ran("notfound", token, message)
    /\ Panicked(FALSE)
    /\ UNCHANGED <<state_vars, now>>

handle_filterload(token, message) ==
    /\ Idle
    /\ out' = <<>>
    /\ Ran("filterload", token, message)
    /\ Returned
    /\ UNCHANGED <<state_vars, now>>

handle_reject(token, message) ==
    /\ Idle
    /\ out' = <<>>
    /\ Ran("reject", token, message)
    /\ Panicked(FALSE)
    /\ UNCHANGED <<state_vars, now>>

(***************************************************************************)
(* handle on a raw frame, up to the point where a handler is called.  A    *)
(* frame is told by what decoding looks at: how many bytes of header there *)
(* are, the magic, the command name, and whether the body can be decoded.  *)
(***************************************************************************)
\* The magics 0xD9B4BEF9, 0xDAB5BFFA, 0x0709110B and 0xFEB4BEF9 as the four
\* little-endian bytes they have on the wire.
MagicMain == <<249, 190, 180, 217>>
MagicTestNet == <<250, 191, 181, 218>>
MagicTestNet3 == <<11, 17, 9, 7>>
MagicNameCoin == <<249, 190, 180, 254>>

NetworkType_deserialize(data) ==
    IF data = MagicMain THEN Some("Main")
    ELSE IF data = MagicTestNet THEN Some("TestNet")
    ELSE IF data = MagicTestNet3 THEN Some("TestNet3")
    ELSE IF data = MagicNameCoin THEN Some("NameCoin")
    ELSE None

CommandNames ==
    {"version", "verack", "ping", "pong", "addr", "getaddr", "reject", "getheaders",
     "getblocks", "inv", "getdata", "notfound", "tx", "block", "headers", "filterload"}
BodylessCommands == {"verack", "getaddr"}

Command_deserialize(data) == IF data \in CommandNames THEN Some(data) ELSE None

MessageHeader_deserialize(frame) ==
    IF frame.header_len < FrameHeaderLen THEN None
    ELSE IF NetworkType_deserialize(frame.magic) = None THEN None
    ELSE IF Command_deserialize(frame.command) = None THEN None
    ELSE Some([network_type |-> NetworkType_deserialize(frame.magic)[1],
               command |-> Command_deserialize(frame.command)[1]])

\* handle_command up to the call of the handler: "Err" when it returns an error,
\* "Dispatch" when it calls the command's handler.
handle_command(header, frame) ==
    IF header.network_type # OurNetwork THEN "Err"
    ELSE IF header.command \notin BodylessCommands /\ frame.body # "valid" THEN "Err"
    ELSE "Dispatch"

handle(frame) ==
    IF MessageHeader_deserialize(frame) = None THEN "Err"
    ELSE handle_command(MessageHeader_deserialize(frame)[1], frame)

\* handle_dropped with a slip: the sender of a dropped frame is sent a reject.
handle_dropped_replies(token, frame) ==
    /\ Idle
    /\ handle(frame) = "Err"
    /\ out' = <<send_message("reject", token, NoPayload)>>
    /\ Ran("dropped", token, frame)
    /\ Returned
    /\ UNCHANGED <<state_vars, now>>

\* handle on a frame that no handler is called for: the error is printed.
handle_dropped(token, frame) ==
    /\ Idle
    /\ handle(frame) = "Err"
    /\ out' = <<>>
    /\ Ran("dropped", token, frame)
    /\ Returned
    /\ UNCHANGED <<state_vars, now>>

(***************************************************************************)
(* The environment: time passes, the cache's periodic sweep runs, and the  *)
(* transport takes the queued messages off the channel.                    *)
(***************************************************************************)
TickSteps == {WaitingForBlocksSeconds, PendingInvTtlSeconds}

Tick(seconds) ==
    /\ Idle
    /\ now' = now + seconds
    /\ steps' = steps - 1
    /\ UNCHANGED <<state_vars, alive, poisoned, out, last, pre, getblocks_sent_at, codec, script, threads>>

Sweep ==
    /\ alive
    /\ last.op = "idle"
    /\ ExpiringCache_sweep(pending_inv) # pending_inv
    /\ pending_inv' = ExpiringCache_sweep(pending_inv)
    /\ UNCHANGED <<peers, tx_store, block_store, now, alive, poisoned, out, last, pre,
                   getblocks_sent_at, steps, codec, script, threads>>

Drain ==
    /\ alive
    /\ last.op # "idle"
    /\ out' = <<>>
    /\ last' = NoLast
    /\ pre' = NoPre
    /\ UNCHANGED <<state_vars, now, alive, poisoned, getblocks_sent_at, steps, codec, script, threads>>

(***************************************************************************)
(* The inputs.                                                             *)
(***************************************************************************)
InitChain(n) == [i \in 1..n |-> [hash |-> i, data |-> <<i>> \o [j \in 1..(BlockBodyLen - 1) |-> 77]]]

PeerAddress == [ip |-> "0:0:0:0:0:ffff:a00:1", port |-> 18333]
PeerVersions ==
    {[version |-> v, services |-> TRUE, timestamp |-> 0, addr_recv |-> OurAddress,
      addr_from |-> PeerAddress, nonce |-> 0, user_agent |-> "/peer/",
      start_height |-> 0, relay |-> (v > 70001)] : v \in {70001, 70002}}
SocketAddrs == {[ip |-> "0:0:0:0:0:ffff:a00:1", port |-> 18333]}

\* Hashes are numbers; the initial chain uses 1..InitChainLen, the ones below are
\* hashes the node has never seen.
NewBlock1 == InitChainLen + 1
NewBlock2 == InitChainLen + 2
Tx1 == InitChainLen + 3
Tx2 == InitChainLen + 4
UnknownHash == InitChainLen + 5
BigInvBase == InitChainLen + 5

B(h) == InventoryVector("MSG_BLOCK", h)
T(h) == InventoryVector("MSG_TX", h)
BigInv == [i \in 1..(PendingInvLimit + 1) |-> B(BigInvBase + i)]
InvInputs ==
    {[inventory |-> l] : l \in
        {<<B(1), B(NewBlock1)>>,
         <<T(Tx1), B(NewBlock1), T(Tx2), T(Tx2), B(NewBlock1),
           InventoryVector("MSG_FILTERED_BLOCK", NewBlock2)>>,
         <<B(NewBlock2)>>,
         <<>>,
         BigInv}}
BlockBody(h) == <<h>> \o [j \in 1..(BlockBodyLen - 1) |-> 77]
BlockInputs ==
    {RawFrame(BlockBody(NewBlock1)), RawFrame(BlockBody(NewBlock2)),
     RawFrame(BlockBody(1)), RawFrame(BlockBody(NewBlock1) \o <<78>>), RawFrame(<<>>)}
TxInputs == {[bytes |-> <<Tx1, 77>>]}
GetBlocksInputs ==
    {[version |-> VERSION, block_locators |-> l, hash_stop |-> s] :
        l \in {<<>>, <<UnknownHash>>, <<UnknownHash, 2, 1>>, <<1>>, <<NewBlock1, 1>>},
        s \in {ZeroHash, 3, 1, UnknownHash}}
PingInputs == {[nonce |-> n] : n \in Nonces}
GetDataInputs ==
    {[inventory |-> l] : l \in
        {<<B(1), B(NewBlock1), B(3)>>,
         <<>>,
         <<B(2), T(Tx1), B(1)>>,
         <<InventoryVector("MSG_FILTERED_BLOCK", 1), B(2), B(2)>>}}
WireFrame(header_len, magic, command, body) ==
    [header_len |-> header_len, magic |-> magic, command |-> command, body |-> body]
WireFrameInputs ==
    {WireFrame(FrameHeaderLen - 1, MagicTestNet3, "inv", "valid"),
     WireFrame(FrameHeaderLen, <<0, 0, 0, 0>>, "inv", "valid"),
     WireFrame(FrameHeaderLen, MagicMain, "inv", "valid"),
     WireFrame(FrameHeaderLen, MagicTestNet3, "bogus", "valid"),
     WireFrame(FrameHeaderLen, MagicTestNet3, "inv", "truncated"),
     WireFrame(FrameHeaderLen, MagicTestNet3, "verack", "truncated"),
     WireFrame(FrameHeaderLen, MagicTestNet3, "tx", "valid")}

Init ==
    /\ peers = <<>>
    /\ tx_store = <<>>
    /\ block_store = InitChain(InitChainLen)
    /\ pending_inv = ExpiringCache_new
    /\ now = 0
    /\ alive = TRUE
    /\ poisoned = FALSE
    /\ out = <<>>
    /\ last = NoLast
    /\ pre = NoPre
    /\ getblocks_sent_at = [t \in Tokens |-> -1]
    /\ steps = MaxSteps
    /\ codec = NoCodec
    /\ threads = NoThreads
    /\ script = NoScript

Next ==
    \/ \E token \in Tokens, addr \in SocketAddrs, nonce \in Nonces :
           new_connection(token, addr, nonce)
    \/ \E token \in Tokens, message \in PeerVersions, nonce \in Nonces :
           handle_version(token, message, nonce)
    \/ \E token \in Tokens, nonce \in Nonces : handle_verack(token, nonce)
    \/ \E token \in Tokens, message \in PingInputs : handle_ping(token, message)
    \/ \E token \in Tokens, message \in PingInputs : handle_pong(token, message)
    \/ \E token \in Tokens, message \in InvInputs : handle_inv(token, message)
    \/ \E token \in Tokens, message \in TxInputs : handle_tx(token, message)
    \/ \E token \in Tokens, data \in BlockInputs : handle_block(token, data)
    \/ \E token \in Tokens, message \in GetBlocksInputs : handle_getblocks(token, message)
    \/ \E token \in Tokens : handle_wrong_network(token, "Main", "ping")
    \/ \E token \in Tokens, message \in GetDataInputs : handle_getdata(token, message)
    \/ \E token \in Tokens : handle_getaddr(token)
    \/ \E token \in Tokens : handle_headers(token, [headers |-> <<>>])
    \/ \E token \in Tokens : handle_notfound(token, [inventory |-> <<B(UnknownHash)>>])
    \/ \E token \in Tokens : handle_filterload(token, NoPayload)
    \/ \E token \in Tokens : handle_reject(token, NoPayload)
    \/ \E token \in Tokens, frame \in WireFrameInputs : handle_dropped(token, frame)
    \/ \E seconds \in TickSteps : Tick(seconds)
    \/ Sweep
    \/ Drain

Spec == Init /\ [][Next]_vars

(***************************************************************************)
(* The block synchronisation on its own, followed for more events: peers   *)
(* connect inbound, acknowledge, announce and deliver blocks and            *)
(* transactions while time passes.                                          *)
(***************************************************************************)
MaxSyncSteps == 5

SyncVersions == {m \in PeerVersions : m.version = VERSION}
SyncInvInputs == {[inventory |-> <<B(NewBlock1)>>], [inventory |-> <<>>]}
SyncBlockInputs == {RawFrame(BlockBody(NewBlock1))}

InitSync ==
    /\ peers = <<>>
    /\ tx_store = <<>>
    /\ block_store = InitChain(InitChainLen)
    /\ pending_inv = ExpiringCache_new
    /\ now = 0
    /\ alive = TRUE
    /\ poisoned = FALSE
    /\ out = <<>>
    /\ last = NoLast
    /\ pre = NoPre
    /\ getblocks_sent_at = [t \in Tokens |-> -1]
    /\ steps = MaxSyncSteps
    /\ codec = NoCodec
    /\ threads = NoThreads
    /\ script = NoScript

NextSync ==
    \/ \E token \in Tokens, message \in SyncVersions : handle_version(token, message, 0)
    \/ \E token \in Tokens : handle_verack(token, 0)
    \/ \E token \in Tokens, message \in SyncInvInputs : handle_inv(token, message)
    \/ \E token \in Tokens, message \in TxInputs : handle_tx(token, message)
    \/ \E token \in Tokens, data \in SyncBlockInputs : handle_block(token, data)
    \/ \E seconds \in TickSteps : Tick(seconds)
    \/ Drain

SpecSync == InitSync /\ [][NextSync]_vars

(***************************************************************************)
(* A node whose block store holds more blocks than one inv reply carries,   *)
(* serving getblocks requests.                                              *)
(***************************************************************************)
LongChainLen == 503

LongUnknownHash == LongChainLen + 1
LongGetBlocksInputs ==
    {[version |-> VERSION, block_locators |-> l, hash_stop |-> s] :
        l \in {<<>>,
               <<LongUnknownHash>>,
               <<LongUnknownHash, 1, 40>>,
               <<10, LongUnknownHash, 1>>,
               <<LongChainLen, 1>>,
               <<LongUnknownHash, LongChainLen - 2, 3>>},
        s \in {ZeroHash, 20, 1, 10, LongChainLen, LongUnknownHash}}

InitLong ==
    /\ peers = <<>>
    /\ tx_store = <<>>
    /\ block_store = InitChain(LongChainLen)
    /\ pending_inv = ExpiringCache_new
    /\ now = 0
    /\ alive = TRUE
    /\ poisoned = FALSE
    /\ out = <<>>
    /\ last = NoLast
    /\ pre = NoPre
    /\ getblocks_sent_at = [t \in Tokens |-> -1]
    /\ steps = MaxSteps
    /\ codec = NoCodec
    /\ threads = NoThreads
    /\ script = NoScript

NextLong ==
    \/ \E token \in Tokens, message \in LongGetBlocksInputs :
           handle_getblocks(token, message)
    \/ Drain

SpecLong == InitLong /\ [][NextLong]_vars

(***************************************************************************)
(* The codec (net/messages.rs).  A u64 is kept as its four 16-bit limbs,   *)
(* least significant first, since its values go beyond the integers the    *)
(* checker computes with; an i16 or i32 handed to the Serializer is an     *)
(* integer.  Bytes are 0..255.                                             *)
(***************************************************************************)
U64_of(n) == <<n % 65536, (n \div 65536) % 65536, 0, 0>>
U64_int(u) == u[1] + 65536 * u[2]
U64_lt(x, y) ==
    \E k \in 1..4 : x[k] < y[k] /\ \A j \in (k + 1)..4 : x[j] = y[j]
U64_le(x, y) == x = y \/ U64_lt(x, y)

\* Serializer::to_bytes: the eight bytes of u, least significant first.
to_bytes(u) ==
    [i \in 1..8 |-> IF i % 2 = 1 THEN u[(i + 1) \div 2] % 256 ELSE u[i \div 2] \div 256]

\* Serializer::var_int: the bytes it pushes.  The match arms are the inclusive
\* ranges 0x0...0xfd, 0xfd...0x10000, 0x10000...0x100000000, tried in this order.
var_int(x) ==
    LET data == to_bytes(x)
    IN IF U64_le(x, <<253, 0, 0, 0>>) THEN <<data[1]>>
       ELSE IF U64_le(x, <<0, 1, 0, 0>>) THEN <<253>> \o SubSeq(data, 1, 2)
       ELSE IF U64_le(x, <<0, 0, 1, 0>>) THEN <<254>> \o SubSeq(data, 1, 4)
       ELSE <<255>> \o data

\* Serializer::i_to_fixed with a slip: the sign goes into the first byte.
i_to_fixed_sign_in_first_byte(x, bytes) ==
    LET u == U64_of(IF x < 0 THEN -x ELSE x)
        data == to_bytes(u)
        sign == IF x >= 0 THEN 0 ELSE 128
    IN [i \in 1..bytes |->
           IF i = 1 /\ data[i] < 128 THEN data[i] + sign ELSE data[i]]

\* Serializer::i_to_fixed: the bytes it pushes for the integer x.
i_to_fixed(x, bytes) ==
    LET u == U64_of(IF x < 0 THEN -x ELSE x)
        data == to_bytes(u)
        sign == IF x >= 0 THEN 0 ELSE 128
    IN [i \in 1..bytes |->
           IF i = bytes /\ data[i] < 128 THEN data[i] + sign ELSE data[i]]

\* Deserializer::to_u_slice: the u64 of little-endian bytes.
to_u_slice(data) ==
    LET byte(i) == IF i <= Len(data) THEN data[i] ELSE 0
    IN [k \in 1..4 |-> byte(2 * k - 1) + 256 * byte(2 * k)]

Err == [ok |-> FALSE]

\* Deserializer::to_u_fixed on the bytes left in the buffer.
to_u_fixed(buffer, size) ==
    IF Len(buffer) < size THEN Err
    ELSE [ok |-> TRUE, value |-> to_u_slice(SubSeq(buffer, 1, size))]

\* Deserializer::to_i on a cursor at the start of buffer: the integer read and
\* the cursor's position afterwards.
to_i(buffer, size) ==
    IF Len(buffer) < size THEN Err
    ELSE LET data == SubSeq(buffer, 1, size)
             sign == IF data[size] >= 128 THEN 128 ELSE 0
             cleared == [data EXCEPT ![size] = data[size] % 128]
             unsigned == U64_int(to_u_slice(cleared))
         IN [ok |-> TRUE,
             value |-> IF sign > 0 THEN unsigned * (-1) ELSE unsigned,
             position |-> size]

\* Deserializer::to_var_int_any on a cursor at the start of buffer: the width
\* and the value read, and the cursor's position afterwards.
to_var_int_any(buffer) ==
    IF Len(buffer) < 1 THEN Err
    ELSE IF buffer[1] < 253
    THEN [ok |-> TRUE, bytes |-> 1, value |-> to_u_slice(<<buffer[1]>>), position |-> 1]
    ELSE LET bytes == IF buffer[1] = 253 THEN 2 ELSE IF buffer[1] = 254 THEN 4 ELSE 8
             read == to_u_fixed(SubSeq(buffer, 2, Len(buffer)), bytes)
         IN IF read.ok
            THEN [ok |-> TRUE, bytes |-> bytes, value |-> read.value, position |-> 1 + bytes]
            ELSE Err

\* A Deserializer position: what a read returns, and the bytes left after it.
Drop(buffer, n) == SubSeq(buffer, n + 1, Len(buffer))
Ok(value, rest) == [ok |-> TRUE, value |-> value, rest |-> rest]
Rest(r) == IF r.ok THEN r.rest ELSE <<>>

\* The largest value Serializer::var_int writes as a single byte.
VarIntOneByteMax == 253
\* The longest string Deserializer::to_string accepts.
MaxStringLen == 1024
\* The first protocol version without the relay byte is this one or lower.
RelayVersion == 70001
\* The latest time Deserializer::to_time accepts: 2000000000 seconds.
MaxTimeSeconds == <<37888, 30517, 0, 0>>

\* Deserializer::to_var_int: a varint of the given width only.
to_var_int(buffer, size) ==
    LET any == to_var_int_any(buffer)
    IN IF ~any.ok THEN Err
       ELSE IF size = any.bytes THEN Ok(any.value, Drop(buffer, any.position))
       ELSE Err

\* Deserializer::to_u: to_var_int under Flag::VariableSize, else to_u_fixed.
to_u(buffer, size, variable_size) ==
    IF variable_size THEN to_var_int(buffer, size)
    ELSE LET fixed == to_u_fixed(buffer, size)
         IN IF fixed.ok THEN Ok(fixed.value, Drop(buffer, size)) ELSE Err

\* Serializer::serialize_u: var_int under Flag::VariableSize, else u_to_fixed.
serialize_u(x, bytes, variable_size) ==
    IF variable_size THEN var_int(x) ELSE SubSeq(to_bytes(x), 1, bytes)

\* i32::deserialize.
i32_deserialize(buffer) ==
    LET r == to_i(buffer, 4)
    IN IF r.ok THEN Ok(r.value, Drop(buffer, r.position)) ELSE Err

\* Deserializer::to_time: to_i(8), then the range guard.  The eight bytes are
\* compared as limbs; a time that passes the guard is an integer of seconds.
to_time(buffer) ==
    IF Len(buffer) < 8 THEN Err
    ELSE LET data == SubSeq(buffer, 1, 8)
             sign == IF data[8] >= 128 THEN 128 ELSE 0
             unsigned == to_u_slice([data EXCEPT ![8] = data[8] % 128])
             negative == sign > 0 /\ unsigned # <<0, 0, 0, 0>>
         IN IF negative \/ U64_lt(MaxTimeSeconds, unsigned) THEN Err
            ELSE Ok(U64_int(unsigned), Drop(buffer, 8))

\* Deserializer::to_short_time: four bytes of seconds, as limbs.
to_short_time(buffer) ==
    LET sec == to_u_fixed(buffer, 4)
    IN IF sec.ok THEN Ok(sec.value, Drop(buffer, 4)) ELSE Err

\* time::Tm::deserialize: Flag::ShortFormat picks the four-byte form.
Tm_deserialize(buffer, short_format) ==
    IF short_format THEN to_short_time(buffer) ELSE to_time(buffer)

\* time::Tm::serialize of a time of sec seconds (not negative): four unsigned
\* bytes under Flag::ShortFormat, else eight bytes in the signed format.
Tm_serialize(sec, short_format) ==
    IF short_format THEN serialize_u(U64_of(sec), 4, FALSE) ELSE i_to_fixed(sec, 8)

\* Deserializer::to_bool.
to_bool(buffer) ==
    LET data == to_u_fixed(buffer, 1)
    IN IF data.ok THEN Ok(data.value # <<0, 0, 0, 0>>, Drop(buffer, 1)) ELSE Err

\* String::serialize under Flag::VariableSize: the length as a varint, then
\* the bytes.
String_serialize(s) == var_int(U64_of(Len(s))) \o s

\* Deserializer::to_string without Flag::FixedSize: the length is the value of
\* whatever varint comes first.  The strings here are ASCII, so the UTF-8
\* check passes.
to_string(buffer) ==
    LET any == to_var_int_any(buffer)
    IN IF ~any.ok THEN Err
       ELSE IF U64_lt(U64_of(MaxStringLen), any.value) THEN Err
       ELSE LET length == U64_int(any.value)
                rest == Drop(buffer, any.position)
            IN IF Len(rest) < length THEN Err
               ELSE Ok(SubSeq(rest, 1, length), Drop(rest, length))

\* Services::serialize and Services::deserialize: one u64, 1 for node_network.
Services_serialize(services) ==
    serialize_u(U64_of(IF services.node_network THEN 1 ELSE 0), 8, FALSE)
Services_deserialize(buffer) ==
    LET data == to_u(buffer, 8, FALSE)
    IN IF data.ok THEN Ok([node_network |-> data.value = U64_of(1)], data.rest) ELSE Err

\* Ipv6Addr::serialize and Deserializer::to_ip: eight big-endian segments.
Ipv6Addr_serialize(address) ==
    [i \in 1..16 |-> IF i % 2 = 1 THEN address[(i + 1) \div 2] \div 256
                     ELSE address[i \div 2] % 256]
to_ip(buffer) ==
    IF Len(buffer) < 16 THEN Err
    ELSE Ok([i \in 1..8 |-> U64_int(to_u_slice(<<buffer[2 * i], buffer[2 * i - 1]>>))],
            Drop(buffer, 16))

\* IPAddress::serialize and IPAddress::deserialize; the port is big-endian.
IPAddress_serialize(ip) ==
    Services_serialize(ip.services) \o Ipv6Addr_serialize(ip.address)
        \o <<ip.port \div 256, ip.port % 256>>
IPAddress_deserialize(buffer) ==
    LET services == Services_deserialize(buffer)
        address == to_ip(Rest(services))
        port == to_u_fixed(Rest(address), 2)
    IN IF services.ok /\ address.ok /\ port.ok
       THEN Ok([services |-> services.value, address |-> address.value,
                port |-> LET data == SubSeq(Rest(address), 1, 2)
                         IN U64_int(to_u_slice(<<data[2], data[1]>>))],
               Drop(Rest(address), 2))
       ELSE Err

\* VersionMessage::serialize: the fields in order; the relay byte only above
\* version 70001.
VersionMessage_serialize(v) ==
    i_to_fixed(v.version, 4) \o Services_serialize(v.services)
        \o Tm_serialize(v.timestamp, FALSE) \o IPAddress_serialize(v.addr_recv)
        \o IPAddress_serialize(v.addr_from) \o serialize_u(v.nonce, 8, FALSE)
        \o String_serialize(v.user_agent) \o i_to_fixed(v.start_height, 4)
        \o (IF v.version > RelayVersion THEN <<IF v.relay THEN 1 ELSE 0>> ELSE <<>>)

\* VersionMessage::deserialize: each try! gives up at the first failed read.
VersionMessage_deserialize(buffer) ==
    LET version == i32_deserialize(buffer)
        services == Services_deserialize(Rest(version))
        timestamp == Tm_deserialize(Rest(services), FALSE)
        addr_recv == IPAddress_deserialize(Rest(timestamp))
        addr_from == IPAddress_deserialize(Rest(addr_recv))
        nonce == to_u(Rest(addr_from), 8, FALSE)
        user_agent == to_string(Rest(nonce))
        start_height == i32_deserialize(Rest(user_agent))
        has_relay == version.ok /\ version.value > RelayVersion
        relay == IF has_relay THEN to_bool(Rest(start_height))
                 ELSE Ok(FALSE, Rest(start_height))
    IN IF /\ version.ok /\ services.ok /\ timestamp.ok /\ addr_recv.ok /\ addr_from.ok
          /\ nonce.ok /\ user_agent.ok /\ start_height.ok /\ relay.ok
       THEN Ok([version |-> version.value, services |-> services.value,
                timestamp |-> timestamp.value, addr_recv |-> addr_recv.value,
                addr_from |-> addr_from.value, nonce |-> nonce.value,
                user_agent |-> user_agent.value, start_height |-> start_height.value,
                relay |-> relay.value],
               relay.rest)
       ELSE Err

\* Vec<u8>::deserialize under Flag::FixedSize(n): n single bytes.
Bytes_deserialize(buffer, n) ==
    IF Len(buffer) < n THEN Err ELSE Ok(SubSeq(buffer, 1, n), Drop(buffer, n))

\* BlockHeader::serialize: the hashes go out as their bytes, without a length;
\* txn_count goes out under Flag::VariableSize, as a varint.
BlockHeader_serialize(h) ==
    i_to_fixed(h.version, 4) \o h.prev_block \o h.merkle_root
        \o Tm_serialize(h.timestamp, FALSE) \o serialize_u(h.bits, 4, FALSE)
        \o serialize_u(h.nonce, 4, FALSE) \o serialize_u(h.txn_count, 8, TRUE)

\* BlockHeader::deserialize: txn_count is read by u64::deserialize under
\* Flag::VariableSize, that is by to_u(8, ..), which asks to_var_int for a
\* varint of width 8.
BlockHeader_deserialize(buffer) ==
    LET version == i32_deserialize(buffer)
        prev_block == Bytes_deserialize(Rest(version), 32)
        merkle_root == Bytes_deserialize(Rest(prev_block), 32)
        timestamp == Tm_deserialize(Rest(merkle_root), FALSE)
        bits == to_u(Rest(timestamp), 4, FALSE)
        nonce == to_u(Rest(bits), 4, FALSE)
        txn_count == to_u(Rest(nonce), 8, TRUE)
    IN IF /\ version.ok /\ prev_block.ok /\ merkle_root.ok /\ timestamp.ok
          /\ bits.ok /\ nonce.ok /\ txn_count.ok
       THEN Ok([version |-> version.value, prev_block |-> prev_block.value,
                merkle_root |-> merkle_root.value, timestamp |-> timestamp.value,
                bits |-> bits.value, nonce |-> nonce.value,
                txn_count |-> txn_count.value],
               txn_count.rest)
       ELSE Err

\* BlockHeadersMessage::serialize: the count as a varint, then each header.
RECURSIVE BlockHeaders_serialize(_)
BlockHeaders_serialize(headers) ==
    IF headers = <<>> THEN <<>>
    ELSE BlockHeader_serialize(Head(headers)) \o BlockHeaders_serialize(Tail(headers))
BlockHeadersMessage_serialize(m) ==
    var_int(U64_of(Len(m.headers))) \o BlockHeaders_serialize(m.headers)

\* BlockHeadersMessage::deserialize: get_array_size reads the count with
\* to_var_int_any, then `length` headers are read, the first failure ending it
\* (a count beyond 65535 runs out of buffer before it runs out of count).
RECURSIVE BlockHeaders_deserialize(_, _, _)
BlockHeaders_deserialize(buffer, length, result) ==
    IF length = 0 THEN Ok([headers |-> result], buffer)
    ELSE LET header == BlockHeader_deserialize(buffer)
         IN IF header.ok
            THEN BlockHeaders_deserialize(header.rest, length - 1,
                                          Append(result, header.value))
            ELSE Err
BlockHeadersMessage_deserialize(buffer) ==
    LET any == to_var_int_any(buffer)
    IN IF ~any.ok \/ any.value[2] # 0 \/ any.value[3] # 0 \/ any.value[4] # 0 THEN Err
       ELSE BlockHeaders_deserialize(Drop(buffer, any.position), any.value[1], <<>>)

\* NetworkType::serialize: the magic as a u32 of four bytes, least significant
\* first (0xD9B4BEF9, 0xDAB5BFFA, 0x0709110B, 0xFEB4BEF9 in limbs).
NetworkType_serialize(network_type) ==
    serialize_u(CASE network_type = "Main" -> <<48889, 55732, 0, 0>>
                  [] network_type = "TestNet" -> <<49146, 55989, 0, 0>>
                  [] network_type = "TestNet3" -> <<4363, 1801, 0, 0>>
                  [] network_type = "NameCoin" -> <<48889, 65204, 0, 0>>,
                4, FALSE)

\* A command name of the source, b"...", as its twelve bytes: the ASCII codes
\* of the letters, then NULs.
Name12(letters) == [i \in 1..12 |-> IF i <= Len(letters) THEN letters[i] ELSE 0]

\* Command::serialize: push_bytes(bytes, 12) of the variant's literal.
Command_serialize(command) ==
    CASE command = "addr" -> Name12(<<97, 100, 100, 114>>)
      [] command = "getaddr" -> Name12(<<103, 101, 116, 97, 100, 100, 114>>)
      [] command = "version" -> Name12(<<118, 101, 114, 115, 105, 111, 110>>)
      [] command = "verack" -> Name12(<<118, 101, 114, 97, 99, 107>>)
      [] command = "ping" -> Name12(<<112, 105, 110, 103>>)
      [] command = "pong" -> Name12(<<112, 111, 110, 103>>)
      [] command = "reject" -> Name12(<<114, 101, 106, 101, 99, 116>>)
      [] command = "getheaders" -> Name12(<<103, 101, 116, 104, 101, 97, 100, 101, 114, 115>>)

\* Command::deserialize on bytes: a string of twelve bytes, matched against
\* the names.
Command_from_bytes(buffer) ==
    LET data == Bytes_deserialize(buffer, 12)
        name == IF data.ok THEN data.value ELSE <<>>
        command ==
            IF name = Name12(<<118, 101, 114, 115, 105, 111, 110>>) THEN Some("version")
            ELSE IF name = Name12(<<118, 101, 114, 97, 99, 107>>) THEN Some("verack")
            ELSE IF name = Name12(<<112, 105, 110, 103>>) THEN Some("ping")
            ELSE IF name = Name12(<<112, 111, 110, 103>>) THEN Some("pong")
            ELSE IF name = Name12(<<103, 101, 116, 97, 100, 100, 114>>) THEN Some("getaddr")
            ELSE IF name = Name12(<<97, 100, 100, 114>>) THEN Some("addr")
            ELSE IF name = Name12(<<114, 101, 106, 101, 99, 116>>) THEN Some("reject")
            ELSE IF name = Name12(<<103, 101, 116, 104, 101, 97, 100, 101, 114, 115>>)
            THEN Some("getheaders")
            ELSE None
    IN IF data.ok /\ command # None THEN Ok(command[1], data.rest) ELSE Err

\* MessageHeader::serialize: the four fields in order; the checksum goes out
\* as its bytes, without a length.
MessageHeader_serialize(header) ==
    NetworkType_serialize(header.network_type) \o Command_serialize(header.command)
        \o serialize_u(header.length, 4, FALSE) \o header.checksum

\* MessageHeader::deserialize on bytes; the checksum is four single bytes.
MessageHeader_from_bytes(buffer) ==
    LET magic == Bytes_deserialize(buffer, 4)
        network_type == IF magic.ok THEN NetworkType_deserialize(magic.value) ELSE None
        command == Command_from_bytes(Rest(magic))
        length == to_u(Rest(command), 4, FALSE)
        checksum == Bytes_deserialize(Rest(length), 4)
    IN IF network_type # None /\ command.ok /\ length.ok /\ checksum.ok
       THEN Ok([network_type |-> network_type[1], command |-> command.value,
                length |-> length.value, checksum |-> checksum.value],
               checksum.rest)
       ELSE Err

\* CryptoUtils::sha256 stands for SHA-256: a digest of 32 bytes that depends
\* on every byte of the input and on its length.
RECURSIVE Mix(_, _, _)
Mix(input, from, to) ==
    IF from > to THEN 0
    ELSE IF from = to THEN input[from] + 1
    ELSE LET mid == (from + to) \div 2
         IN (31 * Mix(input, from, mid) + Mix(input, mid + 1, to)) % 65521
sha256(input) ==
    LET mixed == Mix(input, 1, Len(input))
    IN [i \in 1..32 |-> (mixed * i + 93 * i + Len(input)) % 256]

\* Bytes that follow a value in the buffer (the elements of an array after its
\* length, say): none, or MaxTail of them.
MaxTail == 2
Tails == {<<>>, [i \in 1..MaxTail |-> 7]}

VarIntInputs ==
    {<<l0, l1, l2, l3>> : l0 \in {0, 1, 252, 253, 254, 255, 256, 65535},
                          l1 \in {0, 1, 65535}, l2 \in {0, 1, 65535}, l3 \in {0, 65535}}
I16Inputs ==
    (-32768..-32760) \cup (-260..260) \cup (32760..32767) \cup {-16384, 16384}
I32Inputs ==
    {0, 1, -1, 255, -255, 256, -256, 65535, -65535, 65536, -65536, 16777216, -16777216,
     2147483646, -2147483646, 2147483647, -2147483647}

\* A value is serialized as a varint into a fresh buffer, then the tail follows.
Serializer_var_int(x, tail) ==
    /\ codec.op = "idle"
    /\ codec' = [op |-> "var_int", x |-> x, buffer |-> var_int(x) \o tail,
                 written |-> Len(var_int(x))]
    /\ UNCHANGED <<node_vars, script, threads>>

\* The buffer is read back with the width-agnostic varint decoder.
Deserializer_to_var_int_any ==
    /\ codec.op = "var_int"
    /\ codec' = [op |-> "to_var_int_any", x |-> codec.x, buffer |-> codec.buffer,
                 written |-> codec.written, result |-> to_var_int_any(codec.buffer)]
    /\ UNCHANGED <<node_vars, script, threads>>

\* An i16 (bytes = 2) or i32 (bytes = 4) is serialized into a fresh buffer.
Serializer_i_to_fixed(x, bytes, tail) ==
    /\ codec.op = "idle"
    /\ codec' = [op |-> "i_to_fixed", x |-> x, size |-> bytes,
                 buffer |-> i_to_fixed(x, bytes) \o tail, written |-> bytes]
    /\ UNCHANGED <<node_vars, script, threads>>

Deserializer_to_i ==
    /\ codec.op = "i_to_fixed"
    /\ codec' = [op |-> "to_i", x |-> codec.x, size |-> codec.size, buffer |-> codec.buffer,
                 written |-> codec.written, result |-> to_i(codec.buffer, codec.size)]
    /\ UNCHANGED <<node_vars, script, threads>>

\* The version messages handed to the Serializer: versions on both sides of the
\* relay threshold, either relay flag, user agents whose length is written as
\* one varint byte (the longest of them VarIntOneByteMax bytes long).
UserAgent(n) == [i \in 1..n |-> 97]
PeerIP(port) ==
    [services |-> [node_network |-> TRUE],
     address |-> <<0, 0, 0, 0, 0, 65535, 2561, 515>>, port |-> port]
VersionMessageInputs ==
    {[version |-> version, services |-> [node_network |-> node_network],
      timestamp |-> timestamp, addr_recv |-> PeerIP(8333), addr_from |-> PeerIP(18333),
      nonce |-> <<1, 2, 3, 4>>, user_agent |-> UserAgent(n),
      start_height |-> start_height, relay |-> relay] :
        version \in {60002, RelayVersion, RelayVersion + 1},
        node_network \in BOOLEAN, timestamp \in {0, 1500000000},
        n \in {0, 3, VarIntOneByteMax}, start_height \in {0, 500000},
        relay \in BOOLEAN}

\* The block headers handed to the Serializer: 32-byte hashes, and a txn_count
\* of every varint width (0 is what a headers message carries).
Hash32(b) == [i \in 1..32 |-> b]
BlockHeaderInputs ==
    {[version |-> 2, prev_block |-> Hash32(prev), merkle_root |-> Hash32(171),
      timestamp |-> 1500000000, bits |-> <<65535, 7424, 0, 0>>, nonce |-> nonce,
      txn_count |-> txn_count] :
        prev \in {0, 17}, nonce \in {<<0, 0, 0, 0>>, <<57005, 48879, 0, 0>>},
        txn_count \in {<<0, 0, 0, 0>>, <<1, 0, 0, 0>>, <<252, 0, 0, 0>>, <<2000, 0, 0, 0>>,
                       <<0, 2, 0, 0>>, <<1, 0, 1, 0>>, <<0, 0, 0, 1>>}}
BlockHeadersMessageInputs ==
    {[headers |-> <<>>]} \cup {[headers |-> <<h>>] : h \in BlockHeaderInputs}

\* Time fields as they come off the wire: eight-byte fields holding 0, 1,
\* 2*10^9, 2*10^9 + 1, 2^32, the greatest magnitude, -0, -1 and -2*10^9;
\* four-byte ShortFormat fields holding 0, 1, 2*10^9, 2*10^9 + 1, 2^31 and
\* 2^32 - 1; and fields cut short.
TimeWireInputs ==
    {[buffer |-> b, short_format |-> FALSE] :
        b \in {<<0, 0, 0, 0, 0, 0, 0, 0>>, <<1, 0, 0, 0, 0, 0, 0, 0>>,
               <<0, 148, 53, 119, 0, 0, 0, 0>>, <<1, 148, 53, 119, 0, 0, 0, 0>>,
               <<0, 0, 0, 0, 1, 0, 0, 0>>, <<255, 255, 255, 255, 255, 255, 255, 127>>,
               <<0, 0, 0, 0, 0, 0, 0, 128>>, <<1, 0, 0, 0, 0, 0, 0, 128>>,
               <<0, 148, 53, 119, 0, 0, 0, 128>>, <<0, 148, 53, 119>>}}
    \cup {[buffer |-> b, short_format |-> TRUE] :
        b \in {<<0, 0, 0, 0>>, <<1, 0, 0, 0>>, <<0, 148, 53, 119>>, <<1, 148, 53, 119>>,
               <<0, 0, 0, 128>>, <<255, 255, 255, 255>>, <<0, 148, 53>>}}

\* A time field is read off the wire, followed by whatever comes after it.
Deserializer_Tm(field, tail) ==
    /\ codec.op = "idle"
    /\ codec' = [op |-> "Tm", buffer |-> field.buffer \o tail,
                 short_format |-> field.short_format,
                 result |-> Tm_deserialize(field.buffer \o tail, field.short_format)]
    /\ UNCHANGED <<node_vars, script, threads>>

\* Serialize::serialize and Deserialize::deserialize of a message of the given
\* type.
Message_serialize(type, x) ==
    CASE type = "VersionMessage" -> VersionMessage_serialize(x)
      [] type = "BlockHeader" -> BlockHeader_serialize(x)
      [] type = "BlockHeadersMessage" -> BlockHeadersMessage_serialize(x)
Message_deserialize(type, buffer) ==
    CASE type = "VersionMessage" -> VersionMessage_deserialize(buffer)
      [] type = "BlockHeader" -> BlockHeader_deserialize(buffer)
      [] type = "BlockHeadersMessage" -> BlockHeadersMessage_deserialize(buffer)

\* get_serialized_message with a slip: the length counts the header as well.
get_serialized_message_length_with_header(network_type, command, message) ==
    LET payload == IF message = None THEN <<>>
                   ELSE Message_serialize(message[1].type, message[1].x)
        checksum == sha256(sha256(payload))
        header == [network_type |-> network_type, command |-> command,
                   length |-> U64_of(Len(payload) + 24),
                   checksum |-> SubSeq(checksum, 1, 4)]
    IN MessageHeader_serialize(header) \o payload

\* get_serialized_message: the payload is serialized first, the header is
\* built from it and goes in front.
get_serialized_message(network_type, command, message) ==
    LET payload == IF message = None THEN <<>>
                   ELSE Message_serialize(message[1].type, message[1].x)
        checksum == sha256(sha256(payload))
        header == [network_type |-> network_type, command |-> command,
                   length |-> U64_of(Len(payload)),
                   checksum |-> SubSeq(checksum, 1, 4)]
    IN MessageHeader_serialize(header) \o payload

\* What get_serialized_message is called with: every network and command that
\* can be written, without a payload or with a version message or a block
\* header for one.
NetworkTypes == {"Main", "TestNet", "TestNet3", "NameCoin"}
WireCommands ==
    {"addr", "getaddr", "version", "verack", "ping", "pong", "reject", "getheaders"}
PayloadInputs ==
    {None}
        \cup {Some([type |-> "VersionMessage", x |-> v]) :
                v \in {w \in VersionMessageInputs :
                         Len(w.user_agent) = 3 /\ w.timestamp = 0 /\ w.start_height = 0
                         /\ w.relay /\ w.services.node_network}}
        \cup {Some([type |-> "BlockHeader", x |-> h]) :
                h \in {g \in BlockHeaderInputs :
                         g.txn_count = <<0, 0, 0, 0>> /\ g.nonce = <<0, 0, 0, 0>>}}

\* A frame is built by get_serialized_message.
Serializer_get_serialized_message(network_type, command, message) ==
    /\ codec.op = "idle"
    /\ codec' = [op |-> "get_serialized_message", network_type |-> network_type,
                 command |-> command, message |-> message,
                 buffer |-> get_serialized_message(network_type, command, message)]
    /\ UNCHANGED <<node_vars, script, threads>>

\* The receiver reads the header off the front of the frame.
Deserializer_MessageHeader ==
    /\ codec.op = "get_serialized_message"
    /\ codec' = [op |-> "MessageHeader", network_type |-> codec.network_type,
                 command |-> codec.command, message |-> codec.message,
                 buffer |-> codec.buffer,
                 result |-> MessageHeader_from_bytes(codec.buffer)]
    /\ UNCHANGED <<node_vars, script, threads>>

\* A message is serialized into a fresh buffer.
Serializer_serialize(type, x) ==
    /\ codec.op = "idle"
    /\ codec' = [op |-> "serialize", type |-> type, x |-> x,
                 buffer |-> Message_serialize(type, x)]
    /\ UNCHANGED <<node_vars, script, threads>>

\* The buffer is read back as a message of the type that was written.
Deserializer_deserialize ==
    /\ codec.op = "serialize"
    /\ codec' = [op |-> "deserialize", type |-> codec.type, x |-> codec.x,
                 buffer |-> codec.buffer,
                 result |-> Message_deserialize(codec.type, codec.buffer)]
    /\ UNCHANGED <<node_vars, script, threads>>

InitCodec ==
    /\ peers = <<>>
    /\ tx_store = <<>>
    /\ block_store = InitChain(InitChainLen)
    /\ pending_inv = ExpiringCache_new
    /\ now = 0
    /\ alive = TRUE
    /\ poisoned = FALSE
    /\ out = <<>>
    /\ last = NoLast
    /\ pre = NoPre
    /\ getblocks_sent_at = [t \in Tokens |-> -1]
    /\ steps = 0
    /\ codec = NoCodec
    /\ threads = NoThreads
    /\ script = NoScript

NextCodec ==
    \/ \E x \in VarIntInputs, tail \in Tails : Serializer_var_int(x, tail)
    \/ Deserializer_to_var_int_any
    \/ \E x \in I16Inputs, tail \in Tails : Serializer_i_to_fixed(x, 2, tail)
    \/ \E x \in I32Inputs, tail \in Tails : Serializer_i_to_fixed(x, 4, tail)
    \/ Deserializer_to_i
    \/ \E x \in VersionMessageInputs : Serializer_serialize("VersionMessage", x)
    \/ \E x \in BlockHeaderInputs : Serializer_serialize("BlockHeader", x)
    \/ \E x \in BlockHeadersMessageInputs : Serializer_serialize("BlockHeadersMessage", x)
    \/ Deserializer_deserialize
    \/ \E network_type \in NetworkTypes, command \in WireCommands, message \in PayloadInputs :
           Serializer_get_serialized_message(network_type, command, message)
    \/ Deserializer_MessageHeader
    \/ \E field \in TimeWireInputs, tail \in Tails : Deserializer_Tm(field, tail)

SpecCodec == InitCodec /\ [][NextCodec]_vars

(***************************************************************************)
(* The Script VM (parser/op_codes.rs).  A stack element is a sequence of   *)
(* bytes.  A Context holds the program as linked ScriptElements (script),  *)
(* the element it stands on (data, an index into script), the stack and    *)
(* valid.  An opcode handler takes a Context and returns one, or panics.   *)
(***************************************************************************)
ZERO == 128

\* A handler that hit assert!, unwrap() on None or unimplemented!() returns
\* no Context.
Panic == [panicked |-> TRUE]
Panicks(result) == "panicked" \in DOMAIN result

\* Vec::last and the element a Context stands on.
stack_last(stack) == IF stack = <<>> THEN None ELSE Some(stack[Len(stack)])
Element(context) == context.script[context.data]

\* ripemd160 stands for RIPEMD-160: a digest of 20 bytes of its input.
ripemd160(input) ==
    LET mixed == Mix(input, 1, Len(input))
    IN [i \in 1..20 |-> (mixed * (i + 2) + 57 * i + 3 * Len(input)) % 256]

is_true(element) ==
    IF element = None THEN FALSE
    ELSE LET x == element[1] IN Len(x) > 1 \/ (Len(x) # 0 /\ x[1] # ZERO)

\* op_dup with a slip: the element below the top is the one copied.
op_dup_copies_below(context) ==
    IF ~(Len(context.stack) > 0) THEN Panic
    ELSE [context EXCEPT !.stack = Append(@, @[1])]

op_dup(context) ==
    IF ~(Len(context.stack) > 0) THEN Panic
    ELSE [context EXCEPT !.stack = Append(@, stack_last(@)[1])]

\* op_ifdup with a slip: the top element is copied whatever it is.
op_ifdup_always(context) ==
    IF ~(Len(context.stack) > 0) THEN Panic ELSE op_dup(context)

op_ifdup(context) ==
    IF ~(Len(context.stack) > 0) THEN Panic
    ELSE IF is_true(stack_last(context.stack)) THEN op_dup(context)
    ELSE context

op_hash256(context) ==
    IF context.stack = <<>> THEN Panic
    ELSE LET last_ == stack_last(context.stack)[1]
         IN [context EXCEPT
                !.stack = Append(SubSeq(@, 1, Len(@) - 1), sha256(sha256(last_)))]

\* op_hash160 with a slip: RIPEMD-160 of the element itself.
op_hash160_without_sha256(context) ==
    IF context.stack = <<>> THEN Panic
    ELSE LET last_ == stack_last(context.stack)[1]
         IN [context EXCEPT
                !.stack = Append(SubSeq(@, 1, Len(@) - 1), ripemd160(last_))]

op_hash160(context) ==
    IF context.stack = <<>> THEN Panic
    ELSE LET last_ == stack_last(context.stack)[1]
         IN [context EXCEPT
                !.stack = Append(SubSeq(@, 1, Len(@) - 1), ripemd160(sha256(last_)))]

\* op_equalverify with a slip: only the top element is popped.
op_equalverify_pops_one(context) ==
    IF ~(Len(context.stack) >= 2) THEN Panic
    ELSE LET n == Len(context.stack)
         IN [context EXCEPT !.stack = SubSeq(@, 1, n - 1),
                            !.valid = context.stack[n] = context.stack[n - 1]]

op_equalverify(context) ==
    IF ~(Len(context.stack) >= 2) THEN Panic
    ELSE LET n == Len(context.stack)
             x == context.stack[n]
             y == context.stack[n - 1]
         IN [context EXCEPT !.stack = SubSeq(@, 1, n - 2), !.valid = x = y]

op_false(context) == [context EXCEPT !.stack = Append(@, <<>>)]

op_pushdata(context) == [context EXCEPT !.stack = Append(@, Element(context).data)]

push_to_stack(context, data) == [context EXCEPT !.stack = Append(@, <<data>>)]

op_1negate(context) == push_to_stack(context, 129)
op_1(context) == push_to_stack(context, 127)
op_2(context) == push_to_stack(context, 126)
op_16(context) == push_to_stack(context, 112)

op_nop(context) == context

\* op_if with a slip: the condition is read but stays on the stack.
op_if_keeps_condition(context) ==
    IF context.stack = <<>> THEN Panic
    ELSE LET last_ == stack_last(context.stack)
             link == IF is_true(last_) THEN Element(context).next
                     ELSE Element(context).next_else
         IN IF link = None THEN Panic ELSE [context EXCEPT !.data = link[1]]

op_if(context) ==
    IF context.stack = <<>> THEN Panic
    ELSE LET last_ == stack_last(context.stack)
             link == IF is_true(last_) THEN Element(context).next
                     ELSE Element(context).next_else
         IN IF link = None THEN Panic
            ELSE [context EXCEPT !.stack = SubSeq(@, 1, Len(@) - 1), !.data = link[1]]

op_notif(context) ==
    IF context.stack = <<>> THEN Panic
    ELSE LET last_ == stack_last(context.stack)
             link == IF ~is_true(last_) THEN Element(context).next
                     ELSE Element(context).next_else
         IN IF link = None THEN Panic
            ELSE [context EXCEPT !.stack = SubSeq(@, 1, Len(@) - 1), !.data = link[1]]

op_else(context) == Panic

op_endif(context) == context

\* op_verify with a slip: the element it tested is popped.
op_verify_pops(context) ==
    [context EXCEPT !.valid = is_true(stack_last(context.stack)),
                    !.stack = IF @ = <<>> THEN @ ELSE SubSeq(@, 1, Len(@) - 1)]

op_verify(context) == [context EXCEPT !.valid = is_true(stack_last(context.stack))]

\* op_return with a slip: the stack is dropped as well.
op_return_clears_stack(context) == [context EXCEPT !.valid = FALSE, !.stack = <<>>]

op_return(context) == [context EXCEPT !.valid = FALSE]

\* OP_PUSHDATA and OP_CODES: the handler of an opcode, and whether the handler
\* itself moves the Context on to the next element.
OP_CODES(name, context) ==
    CASE name = "PUSHDATA" -> op_pushdata(context)
      [] name = "0" -> op_false(context)
      [] name = "1NEGATE" -> op_1negate(context)
      [] name = "1" -> op_1(context)
      [] name = "2" -> op_2(context)
      [] name = "16" -> op_16(context)
      [] name = "NOP" -> op_nop(context)
      [] name = "IF" -> op_if(context)
      [] name = "NOTIF" -> op_notif(context)
      [] name = "ELSE" -> op_else(context)
      [] name = "ENDIF" -> op_endif(context)
      [] name = "VERIFY" -> op_verify(context)
      [] name = "RETURN" -> op_return(context)
      [] name = "IFDUP" -> op_ifdup(context)
      [] name = "DUP" -> op_dup(context)
      [] name = "EQUALVERIFY" -> op_equalverify(context)
      [] name = "HASH160" -> op_hash160(context)
      [] name = "HASH256" -> op_hash256(context)
advancing(name) == name \in {"IF", "NOTIF"}

\* The parser's links.  Match: the ELSE (when stop_at_else) or ENDIF that
\* closes the branch opened before position j; 0 when there is none.
RECURSIVE Match(_, _, _, _)
Match(ops, j, depth, stop_at_else) ==
    IF j > Len(ops) THEN 0
    ELSE IF advancing(ops[j].op_code) THEN Match(ops, j + 1, depth + 1, stop_at_else)
    ELSE IF ops[j].op_code = "ENDIF"
    THEN IF depth = 0 THEN j ELSE Match(ops, j + 1, depth - 1, stop_at_else)
    ELSE IF ops[j].op_code = "ELSE" /\ depth = 0 /\ stop_at_else THEN j
    ELSE Match(ops, j + 1, depth, stop_at_else)

\* ScriptElement links: next runs past an ELSE to the ENDIF that closes it;
\* next_else, of IF and NOTIF, is the element after the ELSE, or the ENDIF.
Link(ops, j) ==
    IF j > Len(ops) \/ j = 0 THEN None
    ELSE IF ops[j].op_code = "ELSE"
    THEN LET m == Match(ops, j + 1, 0, FALSE) IN IF m = 0 THEN None ELSE Some(m)
    ELSE Some(j)
parse(ops) ==
    [i \in 1..Len(ops) |->
        [op_code |-> ops[i].op_code, data |-> ops[i].data, next |-> Link(ops, i + 1),
         next_else |->
             IF advancing(ops[i].op_code)
             THEN LET m == Match(ops, i + 1, 0, TRUE)
                  IN IF m = 0 THEN None
                     ELSE IF ops[m].op_code = "ELSE" THEN Link(ops, m + 1) ELSE Some(m)
             ELSE None]]

\* Context::new on the first element of a parsed script.
Context_new(ops, stack) ==
    [script |-> parse(ops), data |-> 1, stack |-> stack, valid |-> TRUE]

\* The interpreter runs the element the Context stands on; before and
\* returned are the Context the handler was called with and what it returned.  A handler that
\* panics returns nothing: the panic unwinds out of the interpreter.  Otherwise
\* valid = false halts the program as invalid; else the Context moves to the
\* element's next link, unless the handler has moved it, and a program with no
\* element left halts as valid.
Step ==
    /\ script.status = "Running"
    /\ LET context == script.context
           element == Element(context)
           result == OP_CODES(element.op_code, context)
           ran == [script EXCEPT !.before = context, !.op = element.op_code,
                                 !.returned = result,
                                 !.executed = Append(@, element.op_code)]
       IN script' =
              IF Panicks(result) THEN [ran EXCEPT !.status = "Panicked"]
              ELSE IF ~result.valid
              THEN [ran EXCEPT !.status = "Halted-Invalid", !.context = result]
              ELSE IF advancing(element.op_code)
              THEN [ran EXCEPT !.context = result]
              ELSE IF element.next = None
              THEN [ran EXCEPT !.status = "Halted-Valid", !.context = result]
              ELSE [ran EXCEPT !.context = [result EXCEPT !.data = element.next[1]]]
    /\ UNCHANGED <<node_vars, codec, threads>>

\* Stack elements: empty, negative zero, one, two bytes of negative zero, a
\* zero byte; public keys.
MaxStackLen == 2
StackElements == {<<>>, <<ZERO>>, <<1>>, <<ZERO, ZERO>>, <<0>>}
PubKeys == {<<2, 11, 22>>, <<3, 33, 44>>}
RECURSIVE StacksOf(_)
StacksOf(n) ==
    IF n = 0 THEN {<<>>}
    ELSE StacksOf(n - 1) \cup {Append(s, e) : s \in StacksOf(n - 1), e \in StackElements}
StackInputs == StacksOf(MaxStackLen) \cup {<<k>> : k \in PubKeys}

\* Programs before parsing: one opcode each; pay-to-pubkey-hash with the hash
\* of a key or with another value; a conditional with both branches, behind a
\* push or on the stack as it is.
HashInputs == {ripemd160(sha256(k)) : k \in PubKeys} \cup {<<>>, <<1>>}
Op(name) == [op_code |-> name, data |-> <<>>]
Push(data) == [op_code |-> "PUSHDATA", data |-> data]
PayToPubKeyHash(h) == <<Op("DUP"), Op("HASH160"), Push(h), Op("EQUALVERIFY")>>
Conditional(op) == <<Op(op), Op("1"), Op("ELSE"), Op("2"), Op("ENDIF")>>
ProgramInputs ==
    {<<Op(name)>> : name \in {"0", "1NEGATE", "1", "2", "16", "NOP", "VERIFY", "RETURN",
                              "IFDUP", "DUP", "EQUALVERIFY", "HASH160", "HASH256"}}
        \cup {<<Push(<<5, 6>>)>>}
        \cup {PayToPubKeyHash(h) : h \in HashInputs}
        \cup {Conditional(op) : op \in {"IF", "NOTIF"}}
        \cup {<<Push(d)>> \o Conditional("IF") : d \in StackElements}
        \cup {<<Op("IF"), Op("NOP"), Op("ENDIF"), Op("VERIFY")>>}

InitScript ==
    /\ peers = <<>>
    /\ tx_store = <<>>
    /\ block_store = InitChain(InitChainLen)
    /\ pending_inv = ExpiringCache_new
    /\ now = 0
    /\ alive = TRUE
    /\ poisoned = FALSE
    /\ out = <<>>
    /\ last = NoLast
    /\ pre = NoPre
    /\ getblocks_sent_at = [t \in Tokens |-> -1]
    /\ steps = 0
    /\ codec = NoCodec
    /\ threads = NoThreads
    /\ \E ops \in ProgramInputs, stack \in StackInputs :
           script = [status |-> "Running", context |-> Context_new(ops, stack),
                     start |-> stack, before |-> Context_new(ops, stack),
                     op |-> "none", returned |-> Context_new(ops, stack),
                     executed |-> <<>>]

NextScript == Step

SpecScript == InitScript /\ [][NextScript]_vars

\* A handler called on a Context as it is, the way the unit tests of the file
\* call them: get_context puts the stack under a lone element without links,
\* and valid is a field the caller may have set to false.
get_context(stack) ==
    [script |-> <<[op_code |-> "TEST", data |-> <<>>, next |-> None, next_else |-> None]>>,
     data |-> 1, stack |-> stack, valid |-> TRUE]

OpCodeNames ==
    {"PUSHDATA", "0", "1NEGATE", "1", "2", "16", "NOP", "IF", "NOTIF", "ELSE", "ENDIF",
     "VERIFY", "RETURN", "IFDUP", "DUP", "EQUALVERIFY", "HASH160", "HASH256"}

Call(name) ==
    /\ script.status = "Ready"
    /\ script' = [script EXCEPT
                     !.status = "Called", !.before = script.context, !.op = name,
                     !.returned = OP_CODES(name, script.context),
                     !.executed = <<name>>,
                     !.context = IF Panicks(OP_CODES(name, script.context)) THEN @
                                 ELSE OP_CODES(name, script.context)]
    /\ UNCHANGED <<node_vars, codec, threads>>

InitCall ==
    /\ peers = <<>>
    /\ tx_store = <<>>
    /\ block_store = InitChain(InitChainLen)
    /\ pending_inv = ExpiringCache_new
    /\ now = 0
    /\ alive = TRUE
    /\ poisoned = FALSE
    /\ out = <<>>
    /\ last = NoLast
    /\ pre = NoPre
    /\ getblocks_sent_at = [t \in Tokens |-> -1]
    /\ steps = 0
    /\ codec = NoCodec
    /\ threads = NoThreads
    /\ \E stack \in StackInputs, valid \in BOOLEAN :
           LET context == [get_context(stack) EXCEPT !.valid = valid]
           IN script = [status |-> "Ready", context |-> context, start |-> stack,
                        before |-> context, op |-> "none", returned |-> context,
                        executed |-> <<>>]

NextCall == \E name \in OpCodeNames : Call(name)

SpecCall == InitCall /\ [][NextCall]_vars

(***************************************************************************)
(* Handlers on several threads.  BitcoinClient is shared behind an Arc and *)
(* its State behind Arc<Mutex<State>>; here every thread runs handle on    *)
(* one frame, statement by statement.  A handler takes the State mutex     *)
(* with self.state.lock().unwrap() and holds the guard until it returns;   *)
(* a panic while the guard is held poisons the mutex, and lock().unwrap()  *)
(* on a poisoned mutex panics.  out is the transport channel: every        *)
(* send_message appends to it.                                             *)
(***************************************************************************)
MaxThreads == 2
Threads == 1..MaxThreads

ThreadInvInputs ==
    {[inventory |-> <<B(NewBlock1), T(Tx1), B(NewBlock1)>>],
     [inventory |-> <<B(NewBlock2), B(NewBlock1)>>]}
ThreadFrames ==
    {[op |-> "inv", message |-> m] : m \in ThreadInvInputs}
    \cup {[op |-> "block", message |-> [data |-> RawFrame(BlockBody(NewBlock1))]],
          [op |-> "tx", message |-> [bytes |-> <<Tx1, 77>>]],
          [op |-> "verack", message |-> NoPayload],
          [op |-> "ping", message |-> [nonce |-> 0]]}
\* A thread that has been handed a frame of a token and has not started on it.
ThreadJobs ==
    {[op |-> f.op, token |-> token, message |-> f.message,
      pc |-> IF f.op = "ping" THEN "send_message" ELSE "lock",
      i |-> 1, new_data |-> <<>>, locks |-> 0, wrote |-> FALSE, sent |-> <<>>] :
        f \in ThreadFrames, token \in Tokens}

Self(t) == threads.run[t]
\* Thread t moves on as the record run, the mutex going to (or staying with) holder.
Moves(t, run, holder) ==
    threads' = [mutex |-> holder, run |-> [threads.run EXCEPT ![t] = run]]
\* A panic of thread t inside its critical section: the guard is dropped while
\* unwinding and the mutex is left poisoned.
Unwinds(t) ==
    /\ Moves(t, [Self(t) EXCEPT !.pc = "panicked"], 0)
    /\ poisoned' = TRUE
\* send_message on the channel by thread t: the frames are appended, and the
\* thread notes what it sent and where in the channel it went.
Sends(t, frames) ==
    [k \in 1..Len(frames) |-> [at |-> Len(out) + k, frame |-> frames[k]]]
ThreadRest == UNCHANGED <<now, alive, last, pre, getblocks_sent_at, steps, codec, script>>

\* lock() with a slip: the mutex is handed out while another thread holds it.
state_lock_not_exclusive(t) ==
    /\ Self(t).pc = "lock"
    /\ IF poisoned
       THEN Moves(t, [Self(t) EXCEPT !.pc = "panicked"], threads.mutex)
       ELSE Moves(t, [Self(t) EXCEPT
                         !.pc = CASE Self(t).op = "inv" -> "next"
                                  [] Self(t).op = "block" -> "received_data"
                                  [] Self(t).op = "tx" -> "add_tx"
                                  [] Self(t).op = "verack" -> "received_verack",
                         !.locks = @ + 1], t)
    /\ UNCHANGED <<state_vars, poisoned, out>>
    /\ ThreadRest

\* let mut state = self.state.lock().unwrap(): the thread waits while the mutex
\* is held, takes it, and panics if it is poisoned.
state_lock(t) ==
    /\ Self(t).pc = "lock"
    /\ threads.mutex = 0
    /\ IF poisoned
       THEN Moves(t, [Self(t) EXCEPT !.pc = "panicked"], threads.mutex)
       ELSE Moves(t, [Self(t) EXCEPT
                         !.pc = CASE Self(t).op = "inv" -> "next"
                                  [] Self(t).op = "block" -> "received_data"
                                  [] Self(t).op = "tx" -> "add_tx"
                                  [] Self(t).op = "verack" -> "received_verack",
                         !.locks = @ + 1], t)
    /\ UNCHANGED <<state_vars, poisoned, out>>
    /\ ThreadRest

\* The handler returns and its guard is dropped.
state_unlock(t) ==
    /\ Self(t).pc = "return"
    /\ Moves(t, [Self(t) EXCEPT !.pc = "done"], 0)
    /\ UNCHANGED <<state_vars, poisoned, out>>
    /\ ThreadRest

\* handle_inv: one turn of the loop over message.inventory.
handle_inv_next(t) ==
    /\ Self(t).op = "inv" /\ Self(t).pc = "next"
    /\ IF Self(t).i > Len(Self(t).message.inventory)
       THEN /\ Moves(t, [Self(t) EXCEPT !.pc = "send_message"], threads.mutex)
            /\ UNCHANGED pending_inv
       ELSE LET r == handle_inv_entry(Self(t).message.inventory[Self(t).i],
                                      [pending_inv |-> pending_inv,
                                       new_data |-> Self(t).new_data])
            IN /\ pending_inv' = r.pending_inv
               /\ Moves(t, [Self(t) EXCEPT !.i = @ + 1,
                                           !.new_data = r.new_data,
                                           !.wrote = @ \/ r.pending_inv # pending_inv],
                        threads.mutex)
    /\ UNCHANGED <<peers, tx_store, block_store, poisoned, out>>
    /\ ThreadRest

\* handle_inv: the getdata frame.
handle_inv_send_message(t) ==
    /\ Self(t).op = "inv" /\ Self(t).pc = "send_message"
    /\ LET frames == <<send_message("getdata", Self(t).token,
                                    [inventory |-> Self(t).new_data])>>
       IN /\ out' = out \o frames
          /\ Moves(t, [Self(t) EXCEPT !.pc = "got_inv", !.sent = @ \o Sends(t, frames)],
                   threads.mutex)
    /\ UNCHANGED <<state_vars, poisoned>>
    /\ ThreadRest

\* handle_inv: state.get_peer(&token).unwrap().got_inv().
handle_inv_got_inv(t) ==
    /\ Self(t).op = "inv" /\ Self(t).pc = "got_inv"
    /\ IF Self(t).token \notin DOMAIN peers
       THEN /\ Unwinds(t)
            /\ UNCHANGED peers
       ELSE /\ peers' = [peers EXCEPT ![Self(t).token] = got_inv(@)]
            /\ Moves(t, [Self(t) EXCEPT !.pc = "return", !.wrote = TRUE], threads.mutex)
            /\ UNCHANGED poisoned
    /\ UNCHANGED <<tx_store, block_store, pending_inv, out>>
    /\ ThreadRest

\* handle_block: state.received_data(&hash).
handle_block_received_data(t) ==
    /\ Self(t).op = "block" /\ Self(t).pc = "received_data"
    /\ LET body == SubSeq(Self(t).message.data, FrameHeaderLen + 1,
                          Len(Self(t).message.data))
           hash == BlockMessage_hash(BlockMessage_deserialize(body)[1])
       IN pending_inv' = received_data(pending_inv, hash)
    /\ Moves(t, [Self(t) EXCEPT !.pc = "add_block", !.wrote = TRUE], threads.mutex)
    /\ UNCHANGED <<peers, tx_store, block_store, poisoned, out>>
    /\ ThreadRest

\* handle_block: state.add_block(message, &hash, &data.get_ref()[24..]).
handle_block_add_block(t) ==
    /\ Self(t).op = "block" /\ Self(t).pc = "add_block"
    /\ LET body == SubSeq(Self(t).message.data, FrameHeaderLen + 1,
                          Len(Self(t).message.data))
           hash == BlockMessage_hash(BlockMessage_deserialize(body)[1])
       IN block_store' = add_block(block_store, hash, body)
    /\ Moves(t, [Self(t) EXCEPT !.pc = "get_blocks", !.wrote = TRUE], threads.mutex)
    /\ UNCHANGED <<peers, tx_store, pending_inv, poisoned, out>>
    /\ ThreadRest

\* handle_tx: state.add_tx(message).
handle_tx_add_tx(t) ==
    /\ Self(t).op = "tx" /\ Self(t).pc = "add_tx"
    /\ tx_store' = add_tx(tx_store, TxMessage_hash(Self(t).message), Self(t).message)
    /\ Moves(t, [Self(t) EXCEPT !.pc = "get_blocks", !.wrote = TRUE], threads.mutex)
    /\ UNCHANGED <<peers, block_store, pending_inv, poisoned, out>>
    /\ ThreadRest

\* handle_verack: state.get_peer(&token).unwrap().received_verack().
handle_verack_received_verack(t) ==
    /\ Self(t).op = "verack" /\ Self(t).pc = "received_verack"
    /\ IF Self(t).token \notin DOMAIN peers
       THEN /\ Unwinds(t)
            /\ UNCHANGED peers
       ELSE /\ peers' = [peers EXCEPT ![Self(t).token] = received_verack(@)]
            /\ Moves(t, [Self(t) EXCEPT !.pc = "send_message", !.wrote = TRUE],
                     threads.mutex)
            /\ UNCHANGED poisoned
    /\ UNCHANGED <<tx_store, block_store, pending_inv, out>>
    /\ ThreadRest

\* handle_verack: the getaddr frame.
handle_verack_send_message(t) ==
    /\ Self(t).op = "verack" /\ Self(t).pc = "send_message"
    /\ LET frames == <<send_message("getaddr", Self(t).token, NoPayload)>>
       IN /\ out' = out \o frames
          /\ Moves(t, [Self(t) EXCEPT !.pc = "get_blocks", !.sent = @ \o Sends(t, frames)],
                   threads.mutex)
    /\ UNCHANGED <<state_vars, poisoned>>
    /\ ThreadRest

\* self.get_blocks(&mut state, token), from handle_verack, handle_tx and
\* handle_block.
get_blocks_call(t) ==
    /\ Self(t).pc = "get_blocks"
    /\ LET gb == get_blocks(peers, pending_inv, block_store, Self(t).token)
       IN IF gb.panicked
          THEN /\ Unwinds(t)
               /\ UNCHANGED <<peers, out>>
          ELSE /\ peers' = gb.peers
               /\ out' = out \o gb.frames
               /\ Moves(t, [Self(t) EXCEPT
                               !.pc = IF Self(t).op = "verack" THEN "ping" ELSE "return",
                               !.wrote = @ \/ gb.peers # peers,
                               !.sent = @ \o Sends(t, gb.frames)],
                        threads.mutex)
               /\ UNCHANGED poisoned
    /\ UNCHANGED <<tx_store, block_store, pending_inv>>
    /\ ThreadRest

\* self.ping(&mut state, token), from handle_verack.
ping_call(t, nonce) ==
    /\ Self(t).op = "verack" /\ Self(t).pc = "ping"
    /\ LET pg == ping(peers, Self(t).token, nonce)
       IN /\ peers' = pg.peers
          /\ out' = out \o pg.frames
          /\ Moves(t, [Self(t) EXCEPT !.pc = "return", !.wrote = TRUE,
                                      !.sent = @ \o Sends(t, pg.frames)],
                   threads.mutex)
    /\ UNCHANGED <<tx_store, block_store, pending_inv, poisoned>>
    /\ ThreadRest

\* handle_ping: the pong frame; the State is not locked.
handle_ping_send_message(t) ==
    /\ Self(t).op = "ping" /\ Self(t).pc = "send_message"
    /\ LET frames == <<send_message("pong", Self(t).token, Self(t).message)>>
       IN /\ out' = out \o frames
          /\ Moves(t, [Self(t) EXCEPT !.pc = "done", !.sent = @ \o Sends(t, frames)],
                   threads.mutex)
    /\ UNCHANGED <<state_vars, poisoned>>
    /\ ThreadRest

\* The peers that have connected before the frames arrive.
ThreadPeers == {[token \in known |-> new_outbound] : known \in {{1}, Tokens}}

InitThreads ==
    /\ now = 0
    /\ peers \in ThreadPeers
    /\ tx_store = <<>>
    /\ block_store = InitChain(InitChainLen)
    /\ pending_inv = ExpiringCache_new
    /\ alive = TRUE
    /\ poisoned = FALSE
    /\ out = <<>>
    /\ last = NoLast
    /\ pre = NoPre
    /\ getblocks_sent_at = [t \in Tokens |-> -1]
    /\ steps = MaxSteps
    /\ codec = NoCodec
    /\ script = NoScript
    /\ threads \in {[mutex |-> 0, run |-> run] : run \in [Threads -> ThreadJobs]}

NextThreads ==
    \/ \E t \in Threads : state_lock(t)
    \/ \E t \in Threads : state_unlock(t)
    \/ \E t \in Threads : handle_inv_next(t)
    \/ \E t \in Threads : handle_inv_send_message(t)
    \/ \E t \in Threads : handle_inv_got_inv(t)
    \/ \E t \in Threads : handle_block_received_data(t)
    \/ \E t \in Threads : handle_block_add_block(t)
    \/ \E t \in Threads : handle_tx_add_tx(t)
    \/ \E t \in Threads : handle_verack_received_verack(t)
    \/ \E t \in Threads : handle_verack_send_message(t)
    \/ \E t \in Threads : get_blocks_call(t)
    \/ \E t \in Threads, nonce \in Nonces : ping_call(t, nonce)
    \/ \E t \in Threads : handle_ping_send_message(t)

SpecThreads == InitThreads /\ [][NextThreads]_vars

(***************************************************************************)
(* The claims.  A state in which last.op is not "idle" is the state right  *)
(* after one entry point has run: pre is the State it was called in, out   *)
(* the channel messages it queued.                                         *)
(***************************************************************************)
Handled(op) == last.op = op
Known(token) == token \in DOMAIN pre.peers
Commands == [i \in 1..Len(out) |-> out[i].frame.command]
AllToSender ==
    \A i \in 1..Len(out) :
        /\ out[i].kind = "SendMessage"
        /\ out[i].token = last.token
        /\ out[i].frame.network_type = OurNetwork
StateUnchanged ==
    /\ peers = pre.peers
    /\ tx_store = pre.tx_store
    /\ block_store = pre.block_store
    /\ pending_inv = pre.pending_inv

\* C1: a version frame from a token that is not yet in peers creates the peer as
\* Inbound, with that version stored and verack_received = FALSE, and queues to
\* that token exactly two frames, in this order: our version, then verack.
C1_InboundVersion ==
    (Handled("version") /\ ~Known(last.token)) =>
        /\ DOMAIN peers = DOMAIN pre.peers \cup {last.token}
        /\ peers[last.token].connection_type = "Inbound"
        /\ peers[last.token].version = Some(last.message)
        /\ peers[last.token].verak_received = FALSE
        /\ Commands = <<"version", "verack">>
        /\ AllToSender
        /\ out[1].frame.payload.version = VERSION
        /\ out[1].frame.payload.addr_from = OurAddress
        /\ out[1].frame.payload.addr_recv = last.message.addr_recv
        /\ out[2].frame.payload = NoPayload

C1_Witness ==
    /\ Handled("version")
    /\ ~Known(last.token)
    /\ peers[last.token].connection_type = "Inbound"
    /\ Commands = <<"version", "verack">>

\* C2: new_connection on a new token creates an Outbound peer with no version and
\* queues exactly one version frame to that token; when a version frame of an
\* Outbound peer is handled, the peer's stored version is set, the peer stays
\* Outbound, and exactly one frame is queued to it: verack, with no second version.
C2_OutboundHandshake ==
    /\ (Handled("new_connection") /\ ~Known(last.token)) =>
          /\ DOMAIN peers = DOMAIN pre.peers \cup {last.token}
          /\ peers[last.token].connection_type = "Outbound"
          /\ peers[last.token].version = None
          /\ peers[last.token].verak_received = FALSE
          /\ Commands = <<"version">>
          /\ AllToSender
          /\ out[1].frame.payload.version = VERSION
          /\ out[1].frame.payload.start_height = BlockStore_height(block_store)
          /\ out[1].frame.payload.addr_recv = last.message
    /\ (Handled("version") /\ Known(last.token)
            /\ pre.peers[last.token].connection_type = "Outbound") =>
          /\ DOMAIN peers = DOMAIN pre.peers
          /\ peers[last.token] = [pre.peers[last.token] EXCEPT !.version = Some(last.message)]
          /\ Commands = <<"verack">>
          /\ AllToSender

C2_Witness ==
    /\ Handled("version")
    /\ Known(last.token)
    /\ pre.peers[last.token].connection_type = "Outbound"
    /\ pre.peers[last.token].version = None
    /\ peers[last.token].version = Some(last.message)
    /\ Commands = <<"verack">>

\* C3: verack from a known peer sets its verack_received and queues to it, in this
\* order: getaddr, then getblocks (only when get_blocks is suppressed neither by
\* backpressure nor by the waiting flag), then one ping whose nonce is recorded as
\* the peer's outstanding ping nonce.
C3_GetBlocksSuppressed ==
    \/ pending_inv_len(pre.pending_inv) > PendingInvLimit
    \/ is_waiting_for_blocks(pre.peers[last.token])

C3_Verack ==
    (Handled("verack") /\ Known(last.token)) =>
        /\ peers[last.token].verak_received = TRUE
        /\ AllToSender
        /\ Commands = IF C3_GetBlocksSuppressed
                      THEN <<"getaddr", "ping">>
                      ELSE <<"getaddr", "getblocks", "ping">>
        /\ out[1].frame.payload = NoPayload
        /\ out[Len(out)].frame.payload = [nonce |-> peers[last.token].ping_data]
        /\ peers[last.token].ping_time = now
        /\ \A t \in DOMAIN pre.peers \ {last.token} : peers[t] = pre.peers[t]

C3_Witness ==
    /\ Handled("verack")
    /\ Known(last.token)
    /\ ~pre.peers[last.token].verak_received
    /\ peers[last.token].verak_received
    /\ Commands = <<"getaddr", "getblocks", "ping">>
    /\ out[3].frame.payload.nonce = peers[last.token].ping_data
    /\ pre.peers[last.token].ping_data # peers[last.token].ping_data

C3_WitnessBackpressure ==
    Handled("verack") /\ Known(last.token) /\ Commands = <<"getaddr", "ping">>
        /\ pending_inv_len(pre.pending_inv) > PendingInvLimit

C3_WitnessWaiting ==
    Handled("verack") /\ Known(last.token) /\ Commands = <<"getaddr", "ping">>
        /\ is_waiting_for_blocks(pre.peers[last.token])

\* C4: ping(nonce = N) from any token, known or not, queues exactly one frame,
\* pong(nonce = N), to that same token, and leaves the State unchanged.
C4_PingPong ==
    Handled("ping") =>
        /\ Commands = <<"pong">>
        /\ AllToSender
        /\ out[1].frame.payload = [nonce |-> last.message.nonce]
        /\ StateUnchanged
        /\ alive

C4_Witness ==
    /\ Handled("ping")
    /\ ~Known(last.token)
    /\ DOMAIN peers # {}
    /\ last.message.nonce = MaxNonce
    /\ out = <<send_message("pong", last.token, [nonce |-> MaxNonce])>>

\* C5: a peer's rtt (ping) stays -1 until a pong is handled whose nonce equals the
\* nonce of a ping that was actually sent to that peer; a pong with any other
\* nonce, and any pong that arrives before a ping was sent, leaves every field of
\* the peer unchanged.  (A ping is sent to a peer only by handle_verack, which
\* also sets verak_received, so verak_received tells that a ping was sent.)
C5_RttOnlyOnSentPing ==
    /\ \A t \in DOMAIN peers : peers[t].ping # -1 => peers[t].verak_received
    /\ (Handled("pong") /\ Known(last.token)
            /\ (\/ ~pre.peers[last.token].verak_received
                \/ last.message.nonce # pre.peers[last.token].ping_data)) =>
          peers = pre.peers

\* The part of C5 the code does satisfy: a pong whose nonce differs from the
\* recorded one changes nothing, and a pong whose nonce equals it sets only ping.
C5_PongEffect ==
    (Handled("pong") /\ Known(last.token)) =>
        /\ out = <<>>
        /\ peers = IF last.message.nonce = pre.peers[last.token].ping_data
                   THEN [pre.peers EXCEPT ![last.token].ping =
                            now - pre.peers[last.token].ping_time]
                   ELSE pre.peers

\* C6: inv from a known peer queues one getdata that lists, in inventory order,
\* exactly the MSG_TX entries whose hash is not in tx_store and the MSG_BLOCK
\* entries whose hash is neither in the block store nor already pending (be it
\* from before or from an earlier entry of the same inv); afterwards pending_inv
\* holds every block hash listed in that getdata and no other new hash.
C6_Requested(inv, i) ==
    \/ /\ inv[i].type_ = "MSG_TX"
       /\ inv[i].hash \notin DOMAIN pre.tx_store
    \/ /\ inv[i].type_ = "MSG_BLOCK"
       /\ ~BlockStore_has(pre.block_store, inv[i].hash)
       /\ ~ExpiringCache_has(pre.pending_inv, inv[i].hash)
       /\ \A j \in 1..(i - 1) : ~(inv[j].type_ = "MSG_BLOCK" /\ inv[j].hash = inv[i].hash)

C6_InvGetData ==
    (Handled("inv") /\ Known(last.token)) =>
        LET inv == last.message.inventory
            keep == {i \in 1..Len(inv) : C6_Requested(inv, i)}
            blocks == {inv[i].hash : i \in {k \in keep : inv[k].type_ = "MSG_BLOCK"}}
        IN /\ Commands = <<"getdata">>
           /\ AllToSender
           /\ Len(out[1].frame.payload.inventory) = Cardinality(keep)
           /\ \A i \in keep :
                 out[1].frame.payload.inventory[Cardinality({j \in keep : j <= i})] = inv[i]
           /\ DOMAIN pending_inv = DOMAIN pre.pending_inv \cup blocks
           /\ \A h \in blocks : ExpiringCache_has(pending_inv, h)
           /\ \A h \in DOMAIN pre.pending_inv \ blocks : pending_inv[h] = pre.pending_inv[h]
           /\ tx_store = pre.tx_store
           /\ block_store = pre.block_store

C6_Witness ==
    /\ Handled("inv")
    /\ Known(last.token)
    /\ last.message.inventory = <<B(1), B(NewBlock1)>>
    /\ out = <<send_message("getdata", last.token, [inventory |-> <<B(NewBlock1)>>])>>
    /\ ~ExpiringCache_has(pre.pending_inv, NewBlock1)
    /\ ExpiringCache_has(pending_inv, NewBlock1)

C6_WitnessAlreadyPending ==
    /\ Handled("inv")
    /\ Known(last.token)
    /\ Len(last.message.inventory) > 2
    /\ ExpiringCache_has(pre.pending_inv, NewBlock1)
    /\ out = <<send_message("getdata", last.token, [inventory |-> <<T(Tx1), T(Tx2), T(Tx2)>>])>>

\* C8: whenever pending_inv.len() > 100 at the get_blocks call of a verack, tx or
\* block handler, the handler queues no getblocks frame and does not set the
\* peer's waiting_for_blocks.
C8_Backpressure ==
    (last.op \in {"verack", "tx", "block"}
        /\ pending_inv_len(pending_inv) > PendingInvLimit) =>
        /\ \A i \in 1..Len(out) : out[i].frame.command # "getblocks"
        /\ Known(last.token) =>
              peers[last.token].waiting_for_blocks =
                  pre.peers[last.token].waiting_for_blocks

C8_Witness ==
    /\ last.op \in {"verack", "tx", "block"}
    /\ pending_inv_len(pending_inv) > PendingInvLimit
    /\ Known(last.token)
    /\ ~is_waiting_for_blocks(pre.peers[last.token])
    /\ alive

\* C9: a block frame from a known peer removes the block's hash from pending_inv,
\* inserts the block into the block store under that hash with the frame bytes
\* after the 24-byte header, and then drives get_blocks for the sending peer (so
\* a getblocks it queues carries the locators of the store with the block in it);
\* afterwards the hash is in the block store and not in pending_inv.
C9_Body == SubSeq(last.message, FrameHeaderLen + 1, Len(last.message))

C9_Block ==
    (Handled("block") /\ Known(last.token) /\ Len(C9_Body) = BlockBodyLen) =>
        LET hash == C9_Body[1]
        IN /\ hash \notin DOMAIN pending_inv
           /\ \A h \in DOMAIN pre.pending_inv \ {hash} :
                 h \in DOMAIN pending_inv /\ pending_inv[h] = pre.pending_inv[h]
           /\ BlockStore_has(block_store, hash)
           /\ BlockStore_get(block_store, hash) = Some([hash |-> hash, data |-> C9_Body])
           /\ SubSeq(block_store, 1, Len(pre.block_store)) = pre.block_store
           /\ AllToSender
           /\ Commands =
                 IF \/ pending_inv_len(pending_inv) > PendingInvLimit
                    \/ is_waiting_for_blocks(pre.peers[last.token])
                 THEN <<>>
                 ELSE <<"getblocks">>
           /\ Commands = <<"getblocks">> =>
                 out[1].frame.payload.block_locators = BlockStore_block_locators(block_store)
           /\ tx_store = pre.tx_store

C9_Witness ==
    /\ Handled("block")
    /\ Known(last.token)
    /\ Len(C9_Body) = BlockBodyLen
    /\ ExpiringCache_has(pre.pending_inv, C9_Body[1])
    /\ ~BlockStore_has(pre.block_store, C9_Body[1])
    /\ BlockStore_has(block_store, C9_Body[1])
    /\ C9_Body[1] \notin DOMAIN pending_inv
    /\ Commands = <<"getblocks">>
    /\ out[1].frame.payload.block_locators[1] = C9_Body[1]


\* C7: once a getblocks frame has been sent to a peer, no handler queues another
\* getblocks frame to that peer until an inv from that peer has been handled or
\* 15 seconds have passed since the frame was sent; and one handler never queues
\* more than one.  (getblocks_sent_at[t] is the time of the last getblocks frame
\* to t that no inv from t has followed, or -1.)
C7_GetBlocksTo(t) == {i \in 1..Len(out) : IsFrame(out[i], t, "getblocks")}

C7_NoGetBlocksWhileWaiting ==
    \A t \in Tokens :
        C7_GetBlocksTo(t) # {} =>
            /\ Cardinality(C7_GetBlocksTo(t)) = 1
            /\ \/ pre.getblocks_sent_at[t] = -1
               \/ now >= pre.getblocks_sent_at[t] + WaitingForBlocksSeconds

\* a handler that would otherwise request blocks is held back by the wait
C7_Witness ==
    /\ last.op \in {"verack", "tx", "block"}
    /\ Known(last.token)
    /\ alive
    /\ pre.getblocks_sent_at[last.token] # -1
    /\ now < pre.getblocks_sent_at[last.token] + WaitingForBlocksSeconds
    /\ pending_inv_len(pending_inv) <= PendingInvLimit
    /\ C7_GetBlocksTo(last.token) = {}

\* the wait ends with the 15 seconds
C7_WitnessExpired ==
    /\ Handled("tx")
    /\ pre.getblocks_sent_at[last.token] # -1
    /\ now >= pre.getblocks_sent_at[last.token] + WaitingForBlocksSeconds
    /\ C7_GetBlocksTo(last.token) # {}

\* the wait ends with an inv from the peer
C7_WitnessAfterInv ==
    /\ Handled("tx")
    /\ Known(last.token)
    /\ pre.getblocks_sent_at[last.token] = -1
    /\ now < pre.peers[last.token].waiting_for_blocks.expires
         + WaitingForBlocksSeconds
    /\ pre.peers[last.token].waiting_for_blocks.expires > 0
    /\ C7_GetBlocksTo(last.token) # {}


\* C10: getblocks is answered from the first hash of the locator list that is in
\* the block store, whatever locators follow it: one inv of at least 1 and at most
\* 500 MSG_BLOCK entries that climb the chain one height at a time, starting at
\* that locator (at its height or the next one), holding hash_stop only as its
\* last entry, and ending at hash_stop, or at the chain tip, or with the 500th
\* entry; when no locator is in the block store, no frame is queued.  The State
\* is not changed.
C10_Known == {i \in 1..Len(last.message.block_locators) :
                 BlockStore_has(pre.block_store, last.message.block_locators[i])}
C10_First == last.message.block_locators[CHOOSE i \in C10_Known : \A j \in C10_Known : i <= j]

C10_GetBlocksReply ==
    Handled("getblocks") =>
        /\ StateUnchanged
        /\ IF C10_Known = {}
           THEN out = <<>>
           ELSE /\ Commands = <<"inv">>
                /\ AllToSender
                /\ LET inv == out[1].frame.payload.inventory
                       n == Len(inv)
                       H == BlockStore_get_height(pre.block_store, C10_First)[1]
                       h0 == BlockStore_get_height(pre.block_store, inv[1].hash)
                   IN /\ n \in 1..InvReplyLimit
                      /\ h0 # None
                      /\ h0[1] \in {H, H + 1}
                      /\ \A i \in 1..n :
                            /\ inv[i].type_ = "MSG_BLOCK"
                            /\ BlockStore_get_hash_at_height(pre.block_store, h0[1] + i - 1)
                                   = Some(inv[i].hash)
                      /\ \A i \in 1..(n - 1) : inv[i].hash # last.message.hash_stop
                      /\ \/ inv[n].hash = last.message.hash_stop
                         \/ h0[1] + n - 1 = BlockStore_height(pre.block_store)
                         \/ n = InvReplyLimit

\* the first locator is unknown, a later one is known, and the reply stops at hash_stop
C10_Witness ==
    /\ Handled("getblocks")
    /\ C10_Known # {}
    /\ 1 \notin C10_Known
    /\ Len(out) = 1
    /\ Len(out[1].frame.payload.inventory) > 1
    /\ out[1].frame.payload.inventory[Len(out[1].frame.payload.inventory)].hash
           = last.message.hash_stop

\* the reply is cut at 500 entries, short of the tip
C10_WitnessLimit ==
    /\ Handled("getblocks")
    /\ Len(out) = 1
    /\ Len(out[1].frame.payload.inventory) = InvReplyLimit
    /\ out[1].frame.payload.inventory[InvReplyLimit].hash # last.message.hash_stop
    /\ BlockStore_get_height(pre.block_store,
           out[1].frame.payload.inventory[InvReplyLimit].hash)
         # Some(BlockStore_height(pre.block_store))

\* the reply runs to the tip
C10_WitnessTip ==
    /\ Handled("getblocks")
    /\ Len(out) = 1
    /\ Len(out[1].frame.payload.inventory) \in 2..(InvReplyLimit - 1)
    /\ out[1].frame.payload.inventory[Len(out[1].frame.payload.inventory)].hash
           # last.message.hash_stop

\* no locator is known
C10_WitnessNoLocator ==
    /\ Handled("getblocks")
    /\ Len(last.message.block_locators) > 0
    /\ C10_Known = {}
    /\ out = <<>>


\* C11: the inv queued in reply to getblocks lists the blocks after the matched
\* locator: its first entry is the hash at the locator's height + 1, and the
\* matched locator's own hash is not part of the reply.
C11_ReplyAfterLocator ==
    (Handled("getblocks") /\ C10_Known # {} /\ Len(out) > 0) =>
        LET inv == out[1].frame.payload.inventory
            H == BlockStore_get_height(pre.block_store, C10_First)[1]
        IN /\ BlockStore_get_hash_at_height(pre.block_store, H + 1) = Some(inv[1].hash)
           /\ \A i \in 1..Len(inv) : inv[i].hash # C10_First

\* What send_inv does instead: the reply starts with the matched locator itself.
C11_ReplyStartsAtLocator ==
    (Handled("getblocks") /\ C10_Known # {}) =>
        /\ Len(out) = 1
        /\ out[1].frame.payload.inventory[1].hash = C10_First


\* C12: getdata queues one block frame for each MSG_BLOCK entry whose hash is in
\* the block store, in entry order, queues nothing for MSG_BLOCK entries that are
\* not in the store, and leaves pending_inv, tx_store and peers unchanged.
C12_Served(inv) ==
    {i \in 1..Len(inv) : inv[i].type_ = "MSG_BLOCK" /\ BlockStore_has(pre.block_store, inv[i].hash)}

C12_GetDataReply ==
    LET inv == last.message.inventory
        served == C12_Served(inv)
    IN /\ Len(out) = Cardinality(served)
       /\ AllToSender
       /\ \A i \in served :
             /\ out[Cardinality({j \in served : j <= i})].frame.command = "block"
             /\ Some(out[Cardinality({j \in served : j <= i})].frame.payload)
                    = BlockStore_get(pre.block_store, inv[i].hash)
       /\ StateUnchanged

C12_GetData == Handled("getdata") => C12_GetDataReply

\* What does hold: the same for a getdata that has no MSG_TX entry.
C12_GetDataOfBlocks ==
    (Handled("getdata")
        /\ \A i \in 1..Len(last.message.inventory) :
              last.message.inventory[i].type_ # "MSG_TX") =>
        C12_GetDataReply /\ alive

\* C13: getaddr queues exactly one addr frame to the requester, with one entry for
\* each peer whose version is known and none for the others; each entry carries
\* that peer's advertised addr_from and its ping_time (the time its last ping was
\* sent); State is unchanged.
C13_GetAddr ==
    Handled("getaddr") =>
        /\ Commands = <<"addr">>
        /\ AllToSender
        /\ StateUnchanged
        /\ alive
        /\ LET known == {t \in DOMAIN pre.peers : pre.peers[t].version # None}
               list == out[1].frame.payload.addr_list
           IN /\ Len(list) = Cardinality(known)
              /\ \E order \in Orders(known) :
                    \A i \in 1..Len(list) :
                        list[i] = [time |-> pre.peers[order[i]].ping_time,
                                   address |-> pre.peers[order[i]].version[1].addr_from]

C13_Witness ==
    /\ Handled("getaddr")
    /\ \E t \in DOMAIN pre.peers : pre.peers[t].version = None
    /\ \E t \in DOMAIN pre.peers : pre.peers[t].version # None
    /\ Len(out) = 1
    /\ Len(out[1].frame.payload.addr_list) = 1

\* C14: a token that is a key of peers stays one in every step, and no step puts
\* a new entry in its place: new_connection and version on a known token change
\* nothing of the entry but its version.
C14_PeersKept ==
    [][\A t \in DOMAIN peers :
          /\ t \in DOMAIN peers'
          /\ peers'[t].connection_type = peers[t].connection_type
          /\ last'.op \in {"version", "new_connection"} =>
                peers'[t] = [peers[t] EXCEPT !.version = peers'[t].version]]_vars

C14_Witness ==
    /\ last.op \in {"version", "new_connection"}
    /\ Known(last.token)
    /\ pre.peers[last.token].verak_received
    /\ peers[last.token].verak_received
    /\ DOMAIN peers = DOMAIN pre.peers

\* C15: every frame with a command other than reject, from any token, is handled
\* without a panic: the handler returns and the State lock can be taken again.
C15_NoPanic == last.op \notin {"idle", "reject"} => (alive /\ ~poisoned)

\* C16: a frame whose header or body does not decode, or whose magic is not the
\* configured network's, queues no frame and leaves State as it was.
C16_Dropped ==
    (\/ Handled("dropped")
     \/ Handled("wrong_network")
     \/ Handled("block") /\ Len(C9_Body) < BlockBodyLen) =>
        /\ out = <<>>
        /\ StateUnchanged
        /\ alive

C16_Witness ==
    /\ Handled("dropped")
    /\ Known(last.token)
    /\ last.message.body = "truncated"
    /\ out = <<>>

C16_WitnessHeader ==
    /\ Handled("dropped")
    /\ pre.peers # <<>>
    /\ MessageHeader_deserialize(last.message) = None

C16_WitnessNetwork ==
    /\ Handled("dropped")
    /\ pre.peers # <<>>
    /\ MessageHeader_deserialize(last.message) # None
    /\ last.message.magic = MagicMain

\* C17: headers, filterload and notfound only log: no frame is queued, State is
\* unchanged, and the handler returns.
C17_LogOnly ==
    last.op \in {"headers", "filterload", "notfound"} =>
        /\ out = <<>>
        /\ StateUnchanged
        /\ alive

\* What does hold: filterload only logs; headers and notfound change nothing
\* but end the event loop.
C17_FilterLoadLogs ==
    /\ Handled("filterload") => (out = <<>> /\ StateUnchanged /\ alive)
    /\ last.op \in {"headers", "notfound"} => (out = <<>> /\ StateUnchanged /\ ~alive)


\* The bytes the Serializer wrote for the value.
C18_Encoded == SubSeq(codec.buffer, 1, codec.written)

\* C18: the varint encoder emits one byte for values < 0xFD, 0xFD and 2
\* little-endian bytes for values < 0x10000, 0xFE and 4 bytes for values
\* < 0x100000000, and 0xFF and 8 bytes otherwise; so 0, 0xFC, 0xFD, 0xFFFF,
\* 0x10000, 0xFFFFFFFF, 0x100000000 and 2^64-1 take 1, 1, 3, 3, 5, 5, 9, 9 bytes.
C18_VarIntWidths ==
    codec.op = "var_int" =>
        LET x == codec.x
            le == [i \in 1..8 |->
                      IF i % 2 = 1 THEN x[(i + 1) \div 2] % 256 ELSE x[i \div 2] \div 256]
        IN C18_Encoded =
              IF U64_lt(x, <<253, 0, 0, 0>>) THEN <<le[1]>>
              ELSE IF U64_lt(x, <<0, 1, 0, 0>>) THEN <<253, le[1], le[2]>>
              ELSE IF U64_lt(x, <<0, 0, 1, 0>>) THEN <<254, le[1], le[2], le[3], le[4]>>
              ELSE <<255>> \o le

\* What the encoder does: each of its ranges takes in its upper end, so 0xFD is
\* one byte, 0x10000 three and 0x100000000 five.
C18_VarIntWidthsInclusive ==
    codec.op = "var_int" =>
        Len(C18_Encoded) =
            IF U64_le(codec.x, <<253, 0, 0, 0>>) THEN 1
            ELSE IF U64_le(codec.x, <<0, 1, 0, 0>>) THEN 3
            ELSE IF U64_le(codec.x, <<0, 0, 1, 0>>) THEN 5
            ELSE 9

\* C19: for every u64 x, decoding the bytes of the varint encoder with
\* to_var_int_any returns x and consumes exactly the bytes that were written.
C19_VarIntRoundTrip ==
    codec.op = "to_var_int_any" =>
        /\ codec.result.ok
        /\ codec.result.value = codec.x
        /\ codec.result.position = codec.written

\* What does hold: the round trip of every value but the three range ends.
C19_VarIntRoundTripElsewhere ==
    (codec.op = "to_var_int_any"
        /\ codec.x \notin {<<253, 0, 0, 0>>, <<0, 1, 0, 0>>, <<0, 0, 1, 0>>}) =>
        /\ codec.result.ok
        /\ codec.result.value = codec.x
        /\ codec.result.position = codec.written

\* C20: a signed fixed-width integer is encoded as its little-endian magnitude
\* with the sign in the high bit of the last byte (-1 is 01 80 as i16 and
\* 01 00 00 80 as i32), and decode(encode(x)) = x for every x of the width.
C20_SignMagnitude ==
    /\ codec.op = "i_to_fixed" =>
          LET mag == IF codec.x < 0 THEN -codec.x ELSE codec.x
              enc == SubSeq(codec.buffer, 1, codec.written)
          IN /\ Len(enc) = codec.size
             /\ (enc[codec.size] >= 128) = (codec.x < 0)
             /\ U64_int(to_u_slice([enc EXCEPT ![codec.size] = @ % 128])) = mag
             /\ (codec.x = -1 /\ codec.size = 2) => enc = <<1, 128>>
             /\ (codec.x = -1 /\ codec.size = 4) => enc = <<1, 0, 0, 128>>
    /\ codec.op = "to_i" =>
          /\ codec.result.ok
          /\ codec.result.value = codec.x
          /\ codec.result.position = codec.written

\* The values whose magnitude fits beside the sign bit.
C20_Fits ==
    IF codec.size = 2 THEN codec.x \in -32767..32767
    ELSE codec.x \in -2147483647..2147483647

\* C20 as it holds: the same for every x whose magnitude fits beside the sign
\* bit, |x| <= 2^15 - 1 as i16 and |x| <= 2^31 - 1 as i32; the least i16, -2^15,
\* is encoded as 00 80, the bytes of a negative zero, and decodes to 0.
C20_SignMagnitudeSymmetric ==
    /\ (codec.op = "i_to_fixed" /\ C20_Fits) =>
          LET mag == IF codec.x < 0 THEN -codec.x ELSE codec.x
              enc == SubSeq(codec.buffer, 1, codec.written)
          IN /\ Len(enc) = codec.size
             /\ (enc[codec.size] >= 128) = (codec.x < 0)
             /\ U64_int(to_u_slice([enc EXCEPT ![codec.size] = @ % 128])) = mag
             /\ (codec.x = -1 /\ codec.size = 2) => enc = <<1, 128>>
             /\ (codec.x = -1 /\ codec.size = 4) => enc = <<1, 0, 0, 128>>
    /\ (codec.op = "to_i" /\ C20_Fits) =>
          /\ codec.result.ok
          /\ codec.result.value = codec.x
          /\ codec.result.position = codec.written
    /\ (codec.op = "to_i" /\ ~C20_Fits) =>
          /\ SubSeq(codec.buffer, 1, codec.written) = <<0, 128>>
          /\ codec.result.ok
          /\ codec.result.value = 0

C20_Witness ==
    /\ codec.op = "to_i"
    /\ codec.size = 4
    /\ codec.x = -2147483647
    /\ codec.buffer = <<255, 255, 255, 255, 7, 7>>
    /\ codec.result.value = -2147483647

C20_WitnessLeast ==
    /\ codec.op = "to_i"
    /\ ~C20_Fits
    /\ codec.result.value = 0

\* A message of the given type has been written and read back.
C21_Decoded(type) == codec.op = "deserialize" /\ codec.type = type
\* C21: a version message above version 70001 decodes to itself, relay flag
\* included; at version 70001 or below no relay byte is written, the decoded
\* relay flag is false and every other field decodes to itself.
C21_VersionRoundTrip ==
    C21_Decoded("VersionMessage") =>
        /\ codec.result.ok
        /\ IF codec.x.version > RelayVersion
           THEN codec.result.value = codec.x
           ELSE /\ codec.result.value = [codec.x EXCEPT !.relay = FALSE]
                /\ codec.buffer = VersionMessage_serialize([codec.x EXCEPT !.relay = FALSE])
\* A version message whose user agent is VarIntOneByteMax bytes long has been
\* written and fails to decode.
C21_LongUserAgentLost ==
    /\ C21_Decoded("VersionMessage")
    /\ Len(codec.x.user_agent) = VarIntOneByteMax
    /\ ~codec.result.ok
\* Apart from such user agents the round trip is as stated.
C21_VersionRoundTripElsewhere ==
    (C21_Decoded("VersionMessage") /\ Len(codec.x.user_agent) # VarIntOneByteMax)
        => C21_VersionRoundTrip
C21_WitnessRelay ==
    /\ C21_Decoded("VersionMessage") /\ codec.result.ok
    /\ codec.x.version > RelayVersion /\ codec.x.relay /\ codec.result.value.relay
C21_WitnessNoRelay ==
    /\ C21_Decoded("VersionMessage") /\ codec.result.ok
    /\ codec.x.version = RelayVersion /\ codec.x.relay /\ ~codec.result.value.relay


\* C22: a block header, and so a headers message, decodes to itself whatever
\* its txn_count: the varint the encoder writes for txn_count is accepted by
\* the decoder and yields the same value.
C22_HeaderRoundTrip ==
    (C21_Decoded("BlockHeader") \/ C21_Decoded("BlockHeadersMessage")) =>
        (codec.result.ok /\ codec.result.value = codec.x)
\* A header with txn_count 0 has been written and is refused by the decoder.
C22_ZeroTxnCountRefused ==
    /\ C21_Decoded("BlockHeader")
    /\ codec.x.txn_count = <<0, 0, 0, 0>>
    /\ ~codec.result.ok
\* So is the headers message that carries it.
C22_HeadersMessageRefused ==
    /\ C21_Decoded("BlockHeadersMessage")
    /\ Len(codec.x.headers) = 1
    /\ codec.x.headers[1].txn_count = <<0, 0, 0, 0>>
    /\ ~codec.result.ok
\* What the decoder does accept: a header whose txn_count was written in the
\* nine-byte form, and the headers message that carries such headers or none.
C22_NineBytes(h) == var_int(h.txn_count)[1] = 255
C22_HeaderRoundTripNineBytes ==
    /\ (C21_Decoded("BlockHeader") /\ C22_NineBytes(codec.x)) =>
           (codec.result.ok /\ codec.result.value = codec.x)
    /\ (C21_Decoded("BlockHeader") /\ ~C22_NineBytes(codec.x)) => ~codec.result.ok
    /\ (/\ C21_Decoded("BlockHeadersMessage")
        /\ \A i \in 1..Len(codec.x.headers) : C22_NineBytes(codec.x.headers[i])) =>
           (codec.result.ok /\ codec.result.value = codec.x)


\* The frame's parts, as the caller of get_serialized_message knows them.
C23_Magic(network_type) ==
    CASE network_type = "Main" -> MagicMain
      [] network_type = "TestNet" -> MagicTestNet
      [] network_type = "TestNet3" -> MagicTestNet3
      [] network_type = "NameCoin" -> MagicNameCoin
C23_Payload ==
    IF codec.message = None THEN <<>>
    ELSE Message_serialize(codec.message[1].type, codec.message[1].x)
C23_Length(n) == <<n % 256, (n \div 256) % 256, (n \div 65536) % 256, n \div 16777216>>
\* C23: get_serialized_message returns a header of 24 bytes followed by the
\* serialized payload; the header is the magic of the network, least
\* significant byte first, the command name padded with NULs to 12 bytes, the
\* payload's length as a u32 and the first 4 bytes of SHA256(SHA256(payload));
\* decoding the header gives back network, command, length and checksum and
\* leaves the cursor on the first byte of the payload.
C23_Framing ==
    codec.op = "MessageHeader" =>
        /\ Len(codec.buffer) = FrameHeaderLen + Len(C23_Payload)
        /\ SubSeq(codec.buffer, 1, 4) = C23_Magic(codec.network_type)
        /\ SubSeq(codec.buffer, 5, 16) = Command_serialize(codec.command)
        /\ \A i \in 5..16 : codec.buffer[i] = 0 => \A j \in i..16 : codec.buffer[j] = 0
        /\ SubSeq(codec.buffer, 17, 20) = C23_Length(Len(C23_Payload))
        /\ SubSeq(codec.buffer, 21, 24) = SubSeq(sha256(sha256(C23_Payload)), 1, 4)
        /\ SubSeq(codec.buffer, 25, Len(codec.buffer)) = C23_Payload
        /\ codec.result.ok
        /\ codec.result.value =
               [network_type |-> codec.network_type, command |-> codec.command,
                length |-> U64_of(Len(C23_Payload)),
                checksum |-> SubSeq(sha256(sha256(C23_Payload)), 1, 4)]
        /\ codec.result.rest = C23_Payload
C23_Witness ==
    /\ codec.op = "MessageHeader"
    /\ codec.network_type = "TestNet3" /\ codec.command = "version"
    /\ codec.message # None /\ codec.message[1].type = "VersionMessage"
    /\ codec.result.ok /\ codec.result.rest = C23_Payload /\ Len(C23_Payload) > 0
\* The frame of the empty payload: TestNet3, verack, length 0.
C23_WitnessVerack ==
    /\ codec.op = "MessageHeader" /\ codec.message = None
    /\ SubSeq(codec.buffer, 1, 20) =
           <<11, 17, 9, 7, 118, 101, 114, 97, 99, 107, 0, 0, 0, 0, 0, 0, 0, 0, 0, 0>>
    /\ Len(codec.buffer) = FrameHeaderLen


\* The seconds a time field on the wire encodes: whether they are negative,
\* and their magnitude in limbs.
C24_Width == IF codec.short_format THEN 4 ELSE 8
C24_Whole == Len(codec.buffer) >= C24_Width
C24_Field == SubSeq(codec.buffer, 1, C24_Width)
C24_Magnitude ==
    IF codec.short_format THEN to_u_slice(C24_Field)
    ELSE to_u_slice([C24_Field EXCEPT ![8] = C24_Field[8] % 128])
C24_Negative ==
    ~codec.short_format /\ C24_Field[8] >= 128 /\ C24_Magnitude # <<0, 0, 0, 0>>
C24_OutOfRange == C24_Negative \/ U64_lt(MaxTimeSeconds, C24_Magnitude)
C24_DecodedSeconds ==
    IF codec.short_format THEN codec.result.value ELSE U64_of(codec.result.value)
\* C24: decoding a time field is an error whenever the encoded seconds are
\* below 0 or above 2*10^9, in the eight-byte form and in the four-byte
\* ShortFormat form alike, so no decoded time lies outside [0, 2*10^9].
C24_TimeGuard ==
    (codec.op = "Tm" /\ C24_Whole) =>
        /\ C24_OutOfRange => ~codec.result.ok
        /\ codec.result.ok => U64_le(C24_DecodedSeconds, MaxTimeSeconds)
\* A ShortFormat field of more than 2*10^9 seconds has been decoded to a time.
C24_ShortTimeUnguarded ==
    /\ codec.op = "Tm" /\ codec.short_format /\ C24_Whole
    /\ C24_OutOfRange /\ codec.result.ok
    /\ U64_lt(MaxTimeSeconds, codec.result.value)
\* The eight-byte form is guarded as stated, and each form decodes the seconds
\* it holds.
C24_TimeGuardDefault ==
    /\ (codec.op = "Tm" /\ C24_Whole /\ ~codec.short_format) =>
           /\ codec.result.ok <=> ~C24_OutOfRange
           /\ codec.result.ok => U64_le(C24_DecodedSeconds, MaxTimeSeconds)
    /\ (codec.op = "Tm" /\ C24_Whole /\ codec.result.ok) =>
           /\ C24_DecodedSeconds = C24_Magnitude
           /\ codec.result.rest = Drop(codec.buffer, C24_Width)
    /\ (codec.op = "Tm" /\ ~C24_Whole) => ~codec.result.ok
C24_WitnessRefused ==
    /\ codec.op = "Tm" /\ ~codec.short_format /\ C24_Whole
    /\ C24_Magnitude = <<37889, 30517, 0, 0>> /\ ~codec.result.ok
C24_WitnessNegativeRefused ==
    /\ codec.op = "Tm" /\ ~codec.short_format /\ C24_Whole
    /\ C24_Negative /\ ~codec.result.ok


\* The interpreter has just run the opcode `name`.
Executed(name) == script.status # "idle" /\ script.op = name
Returned_(name) == Executed(name) /\ ~Panicks(script.returned)
\* Falsehood as the specification words it.
C25_False(stack) ==
    stack = <<>> \/ stack[Len(stack)] = <<>> \/ stack[Len(stack)] = <<128>>
\* C25: a stack element is false iff it is empty or the single byte 0x80, and
\* true otherwise, so {0x80, 0x80} is true; OP_VERIFY sets valid to the
\* truthiness of the top element, an empty stack counting as false, and leaves
\* the stack unchanged.
C25_Verify ==
    /\ \A e \in StackElements \cup PubKeys :
           is_true(Some(e)) <=> ~(e = <<>> \/ e = <<128>>)
    /\ is_true(Some(<<128, 128>>))
    /\ Executed("VERIFY") =>
           /\ ~Panicks(script.returned)
           /\ script.returned.valid <=> ~C25_False(script.before.stack)
           /\ script.returned.stack = script.before.stack
           /\ script.context.stack = script.before.stack
C25_Witness ==
    /\ Executed("VERIFY") /\ script.before.stack = <<<<128, 128>>>>
    /\ script.returned.valid /\ script.status = "Halted-Valid"
C25_WitnessEmptyStack ==
    /\ Executed("VERIFY") /\ script.before.stack = <<>>
    /\ ~script.returned.valid /\ script.status = "Halted-Invalid"
C25_WitnessZero ==
    /\ Executed("VERIFY") /\ script.before.stack = <<<<1>>, <<128>>>>
    /\ ~script.returned.valid /\ script.context.stack = <<<<1>>, <<128>>>>

\* The pay-to-pubkey-hash program with hash h has been started on [pubkey].
C26_Run(h, pubkey) ==
    /\ script.status # "idle"
    /\ script.context.script = parse(PayToPubKeyHash(h))
    /\ script.start = <<pubkey>>
C26_Ends(h, pubkey, stack) ==
    /\ script.status # "Panicked"
    /\ Len(script.executed) = 4 => script.status # "Running"
    /\ script.status # "Running" =>
           IF h = ripemd160(sha256(pubkey))
           THEN script.status = "Halted-Valid" /\ script.context.stack = stack
           ELSE script.status = "Halted-Invalid"
\* C26: the program { OP_DUP; OP_HASH160; PUSH h; OP_EQUALVERIFY } on the stack
\* [pubkey] ends Halted-Valid with an empty stack when h is
\* RIPEMD160(SHA256(pubkey)), and ends Halted-Invalid for any other h.
C26_PayToPubKeyHash ==
    \A h \in HashInputs, pubkey \in PubKeys :
        C26_Run(h, pubkey) => C26_Ends(h, pubkey, <<>>)
\* C26 as it holds: the same, with the stack [pubkey] at the end of the valid
\* run: OP_EQUALVERIFY pops the two hashes and the key below them stays.
C26_PayToPubKeyHashKeepsKey ==
    \A h \in HashInputs, pubkey \in PubKeys :
        C26_Run(h, pubkey) => C26_Ends(h, pubkey, <<pubkey>>)
C26_Witness ==
    \E pubkey \in PubKeys :
        /\ C26_Run(ripemd160(sha256(pubkey)), pubkey)
        /\ script.status = "Halted-Valid"
        /\ script.executed = <<"DUP", "HASH160", "PUSHDATA", "EQUALVERIFY">>
        /\ script.context.stack = <<pubkey>>
C26_WitnessMismatch ==
    \E pubkey \in PubKeys, other \in PubKeys :
        /\ pubkey # other
        /\ C26_Run(ripemd160(sha256(other)), pubkey)
        /\ script.status = "Halted-Invalid"
        /\ script.op = "EQUALVERIFY"


\* The conditional program behind a push of d has been started.
C27_Run(d) ==
    /\ script.status # "idle"
    /\ script.context.script = parse(<<Push(d)>> \o Conditional("IF"))
C27_Truthy(d) == ~(d = <<>> \/ d = <<128>>)
\* C27: for { PUSH d; OP_IF; OP_1; OP_ELSE; OP_2; OP_ENDIF }, a truthy d runs
\* only the IF branch and leaves {0x7f} on top, a false d runs only the ELSE
\* branch and leaves {0x7e} on top; either way OP_IF pops d, exactly one branch
\* value is pushed and OP_ELSE is never executed as an opcode.
C27_Conditional ==
    \A d \in StackElements :
        C27_Run(d) =>
            /\ script.status \in {"Running", "Halted-Valid"}
            /\ \A i \in 1..Len(script.executed) : script.executed[i] # "ELSE"
            /\ Executed("IF") =>
                   /\ script.before.stack = Append(script.start, d)
                   /\ script.returned.stack = script.start
            /\ Len(script.executed) = 4 => script.status = "Halted-Valid"
            /\ script.status = "Halted-Valid" =>
                   /\ script.executed =
                          <<"PUSHDATA", "IF", IF C27_Truthy(d) THEN "1" ELSE "2", "ENDIF">>
                   /\ script.context.stack =
                          Append(script.start, IF C27_Truthy(d) THEN <<127>> ELSE <<126>>)
C27_Witness ==
    /\ C27_Run(<<1>>) /\ script.status = "Halted-Valid" /\ script.start = <<>>
    /\ script.context.stack = <<<<127>>>>
C27_WitnessElse ==
    /\ C27_Run(<<>>) /\ script.status = "Halted-Valid" /\ script.start = <<>>
    /\ script.context.stack = <<<<126>>>>

\* The opcode just run needed more stack elements than there were.
C28_Underflow ==
    \/ /\ script.op \in {"DUP", "IFDUP", "HASH160", "HASH256", "IF", "NOTIF"}
       /\ script.before.stack = <<>>
    \/ script.op = "EQUALVERIFY" /\ Len(script.before.stack) < 2
\* C28: an opcode that needs more stack elements than are present (OP_DUP,
\* OP_IFDUP, OP_HASH160, OP_HASH256, OP_IF or OP_NOTIF on an empty stack,
\* OP_EQUALVERIFY on fewer than two elements) ends the program Halted-Invalid
\* with valid = false.
C28_UnderflowInvalid ==
    (script.status # "idle" /\ C28_Underflow) =>
        /\ script.status = "Halted-Invalid"
        /\ ~script.context.valid
\* What the handlers do instead: each of them panics, no Context comes back and
\* valid is still true.
C28_UnderflowPanics ==
    (script.status # "idle" /\ C28_Underflow) =>
        /\ Panicks(script.returned)
        /\ script.status = "Panicked"
        /\ script.context = script.before /\ script.context.valid
C28_WitnessDup ==
    Executed("DUP") /\ script.before.stack = <<>> /\ script.status = "Panicked"
C28_WitnessEqualVerify ==
    Executed("EQUALVERIFY") /\ Len(script.before.stack) = 1 /\ script.status = "Panicked"
C28_WitnessIf ==
    Executed("IF") /\ script.before.stack = <<>> /\ script.status = "Panicked"

\* C29: OP_EQUALVERIFY on a stack of at least two elements pops exactly the top
\* two, pushes no result, leaves the elements below unchanged, and sets
\* valid = false when the two popped elements differ.
C29_EqualVerify ==
    (Executed("EQUALVERIFY") /\ Len(script.before.stack) >= 2) =>
        LET old == script.before.stack
            n == Len(old)
        IN /\ ~Panicks(script.returned)
           /\ Len(script.returned.stack) = n - 2
           /\ \A i \in 1..(n - 2) : script.returned.stack[i] = old[i]
           /\ old[n] # old[n - 1] => ~script.returned.valid
           /\ old[n] = old[n - 1] => script.returned.valid
           /\ script.returned.data = script.before.data
C29_Witness ==
    /\ Executed("EQUALVERIFY") /\ Len(script.before.stack) = 3
    /\ script.before.stack[3] # script.before.stack[2]
    /\ script.returned.stack = <<script.before.stack[1]>>
    /\ ~script.returned.valid /\ script.status = "Halted-Invalid"
C29_WitnessEqual ==
    /\ Executed("EQUALVERIFY") /\ script.before.stack = <<<<1>>, <<1>>>>
    /\ script.returned.stack = <<>> /\ script.returned.valid

\* C30: OP_DUP on a non-empty stack pushes a copy of the top element: the stack
\* grows by exactly one, the new top equals the old top, and the elements
\* below, the current script element and valid are unchanged.
C30_Dup ==
    (Executed("DUP") /\ script.before.stack # <<>>) =>
        LET old == script.before.stack
            n == Len(old)
        IN /\ ~Panicks(script.returned)
           /\ Len(script.returned.stack) = n + 1
           /\ script.returned.stack[n + 1] = old[n]
           /\ \A i \in 1..n : script.returned.stack[i] = old[i]
           /\ script.returned.data = script.before.data
           /\ script.returned.script = script.before.script
           /\ script.returned.valid = script.before.valid
C30_Witness ==
    /\ Executed("DUP") /\ script.before.stack = <<<<1>>, <<128>>>>
    /\ script.returned.stack = <<<<1>>, <<128>>, <<128>>>>
    /\ script.returned.valid


\* C31: OP_IFDUP on a non-empty stack duplicates the top element iff it is
\* truthy; when the top element is false (empty or {0x80}) the whole context
\* is returned unchanged.
C31_IfDup ==
    (Executed("IFDUP") /\ script.before.stack # <<>>) =>
        LET old == script.before.stack
            top == old[Len(old)]
        IN /\ ~Panicks(script.returned)
           /\ IF top = <<>> \/ top = <<128>>
              THEN script.returned = script.before
              ELSE script.returned = [script.before EXCEPT !.stack = Append(old, top)]
C31_Witness ==
    /\ Executed("IFDUP") /\ script.before.stack = <<<<128>>, <<128, 128>>>>
    /\ script.returned.stack = <<<<128>>, <<128, 128>>, <<128, 128>>>>
C31_WitnessFalse ==
    /\ Executed("IFDUP") /\ script.before.stack = <<<<1>>, <<128>>>>
    /\ script.returned = script.before

\* C32: OP_RETURN on any stack, empty or not, sets valid = false and leaves the
\* stack unchanged, so a program consisting of OP_RETURN ends Halted-Invalid.
C32_Return ==
    Executed("RETURN") =>
        /\ script.returned = [script.before EXCEPT !.valid = FALSE]
        /\ script.status = "Halted-Invalid"
        /\ script.context.stack = script.start
        /\ ~script.context.valid
C32_Witness ==
    /\ Executed("RETURN") /\ script.start = <<<<1>>, <<1>>>>
    /\ script.status = "Halted-Invalid" /\ script.context.stack = <<<<1>>, <<1>>>>
C32_WitnessEmptyStack ==
    Executed("RETURN") /\ script.start = <<>> /\ script.status = "Halted-Invalid"


\* A handler has been called on a Context and has returned one.
C39_Called == script.status = "Called" /\ ~Panicks(script.returned)
\* C39: validity is monotone: once a context has valid = false, no opcode
\* handler applied afterwards sets valid back to true, whatever the stack
\* contains.
C39_ValidMonotone ==
    (C39_Called /\ ~script.before.valid) => ~script.returned.valid
\* OP_VERIFY called on an invalid context with a truthy top has returned a
\* valid one.
C39_VerifyRevalidates ==
    /\ C39_Called /\ script.op = "VERIFY"
    /\ ~script.before.valid /\ script.returned.valid
\* So has OP_EQUALVERIFY on two equal elements.
C39_EqualVerifyRevalidates ==
    /\ C39_Called /\ script.op = "EQUALVERIFY"
    /\ ~script.before.valid /\ script.returned.valid
\* Every other handler keeps an invalid context invalid.
C39_OtherHandlersMonotone ==
    (C39_Called /\ script.op \notin {"VERIFY", "EQUALVERIFY"} /\ ~script.before.valid)
        => ~script.returned.valid
\* In a run of the interpreter no handler is applied once valid is false.
C39_RunsMonotone ==
    [][script.status # "idle" =>
           /\ ~script.context.valid => script'.status = script.status
           /\ script.context.valid \/ ~script'.context.valid]_vars


\* C33: no getblocks frame is queued to a peer whose verack has not been
\* handled, whatever that peer sends before its verack.
C33_NoGetBlocksBeforeVerack ==
    \A t \in Tokens : \A i \in 1..Len(out) :
        IsFrame(out[i], t, "getblocks")
            => t \in DOMAIN peers /\ peers[t].verak_received
\* A block frame from a known peer whose verack is outstanding was answered
\* with getblocks.
C33_BlockBeforeVerack ==
    /\ Handled("block") /\ Known(last.token)
    /\ ~pre.peers[last.token].verak_received
    /\ \E i \in 1..Len(out) : IsFrame(out[i], last.token, "getblocks")
\* So was a tx frame.
C33_TxBeforeVerack ==
    /\ Handled("tx") /\ Known(last.token)
    /\ ~pre.peers[last.token].verak_received
    /\ \E i \in 1..Len(out) : IsFrame(out[i], last.token, "getblocks")
\* The getblocks frames queued by a verack go to a peer whose verack is recorded.
C33_VerackGetBlocks ==
    Handled("verack") =>
        \A t \in Tokens : \A i \in 1..Len(out) :
            IsFrame(out[i], t, "getblocks") => peers[t].verak_received


\* The ping frames queued to token t by the entry point that has just run.
C34_PingsTo(t, queued) == {i \in 1..Len(queued) : IsFrame(queued[i], t, "ping")}
\* C34: each peer's outstanding ping nonce is the nonce of the most recent
\* ping frame queued to it: a step that queues ping frames to a peer leaves
\* the nonce of the last of them in ping_data and the time of sending in
\* ping_time, and a step that queues none leaves both as they were.
C34_PingNonce ==
    [][\A t \in DOMAIN peers' :
          LET pings == C34_PingsTo(t, out')
          IN IF pings # {}
             THEN LET i == CHOOSE i \in pings : \A j \in pings : j <= i
                  IN /\ peers'[t].ping_data = out'[i].frame.payload.nonce
                     /\ peers'[t].ping_time = now'
             ELSE t \in DOMAIN peers =>
                      /\ peers'[t].ping_data = peers[t].ping_data
                      /\ peers'[t].ping_time = peers[t].ping_time]_vars
\* A verack was answered with a ping whose nonce and time of sending both
\* replace what the peer held.
C34_Witness ==
    /\ Handled("verack") /\ Known(last.token)
    /\ C34_PingsTo(last.token, out) # {}
    /\ peers[last.token].ping_data # pre.peers[last.token].ping_data
    /\ peers[last.token].ping_time # pre.peers[last.token].ping_time
\* A second ping to the same peer replaced the nonce of the first.
C34_WitnessSecondPing ==
    /\ Handled("verack") /\ Known(last.token)
    /\ pre.peers[last.token].verak_received
    /\ pre.peers[last.token].ping_data = 1
    /\ peers[last.token].ping_data = 0


\* The hash is pending in the cache c at the time t.
C35_Pending(c, t, hash) == hash \in DOMAIN c /\ t < c[hash]
\* The getdata entries that request the block hash among the queued messages.
C35_GetData(queued) ==
    {i \in 1..Len(queued) :
        queued[i].kind = "SendMessage" /\ queued[i].frame.command = "getdata"}
C35_Requests(queued, hash) ==
    UNION {{<<i, j>> : j \in {k \in 1..Len(queued[i].frame.payload.inventory) :
                                 queued[i].frame.payload.inventory[k] = B(hash)}} :
           i \in C35_GetData(queued)}
\* The block hashes that some getdata entry among the queued messages requests.
C35_Requested(queued) ==
    UNION {{queued[i].frame.payload.inventory[k].hash :
               k \in {k \in 1..Len(queued[i].frame.payload.inventory) :
                         queued[i].frame.payload.inventory[k].type_ = "MSG_BLOCK"}} :
           i \in C35_GetData(queued)}
\* C35: a pending block hash is not requested again: a step requests each
\* block hash in at most one getdata entry and requests none that is pending,
\* a requested hash is pending afterwards, and a pending hash stays pending
\* until a block frame with that hash is handled or time passes.
C35_PendingNotRequestedAgain ==
    [][\A hash \in DOMAIN pending_inv \cup C35_Requested(out') :
          LET requests == C35_Requests(out', hash)
          IN /\ Cardinality(requests) <= 1
             /\ C35_Pending(pending_inv, now, hash) => requests = {}
             /\ requests # {} => C35_Pending(pending_inv', now', hash)
             /\ (C35_Pending(pending_inv, now, hash)
                 /\ ~C35_Pending(pending_inv', now', hash))
                    => \/ now' > now
                       \/ /\ last'.op = "block"
                          /\ BlockMessage_deserialize(
                                 SubSeq(last'.message, FrameHeaderLen + 1,
                                        Len(last'.message))) # None
                          /\ SubSeq(last'.message, FrameHeaderLen + 1,
                                    Len(last'.message))[1] = hash]_vars
\* An inv that names a pending block hash, twice, was answered with a getdata
\* that does not request it.
C35_Witness ==
    /\ Handled("inv") /\ Known(last.token)
    /\ C35_Pending(pre.pending_inv, now, NewBlock1)
    /\ Cardinality({i \in 1..Len(last.message.inventory) :
                       last.message.inventory[i] = B(NewBlock1)}) = 2
    /\ C35_Requests(out, NewBlock1) = {}
\* An inv that names a new block hash twice was answered with a getdata that
\* requests it once.
C35_WitnessDuplicate ==
    /\ Handled("inv")
    /\ ~C35_Pending(pre.pending_inv, now, NewBlock1)
    /\ Cardinality({i \in 1..Len(last.message.inventory) :
                       last.message.inventory[i] = B(NewBlock1)}) = 2
    /\ Cardinality(C35_Requests(out, NewBlock1)) = 1
\* A block hash whose pending entry has expired was requested again.
C35_WitnessExpired ==
    /\ Handled("inv")
    /\ NewBlock1 \in DOMAIN pre.pending_inv
    /\ ~C35_Pending(pre.pending_inv, now, NewBlock1)
    /\ C35_Requests(out, NewBlock1) # {}
\* A pending block hash was received as a block.
C35_WitnessReceived ==
    /\ Handled("block")
    /\ C35_Pending(pre.pending_inv, now, NewBlock1)
    /\ ~C35_Pending(pending_inv, now, NewBlock1)


\* C36: an inv from a known peer queues exactly one getdata frame, to that
\* peer, with an empty inventory when nothing new is requested, and leaves that
\* peer not waiting for blocks whatever the inv contained; the other peers are
\* unchanged.
C36_InvClearsWaiting ==
    (Handled("inv") /\ Known(last.token)) =>
        LET inv == last.message.inventory
        IN /\ Commands = <<"getdata">>
           /\ AllToSender
           /\ (\A i \in 1..Len(inv) : ~C6_Requested(inv, i))
                  => out[1].frame.payload.inventory = <<>>
           /\ ~is_waiting_for_blocks(peers[last.token])
           /\ peers[last.token].waiting_for_blocks.value = FALSE
           /\ DOMAIN peers = DOMAIN pre.peers
           /\ \A t \in DOMAIN peers \ {last.token} : peers[t] = pre.peers[t]
           /\ peers[last.token] =
                  [pre.peers[last.token] EXCEPT
                      !.waiting_for_blocks = peers[last.token].waiting_for_blocks]
\* An inv that names nothing new, from a peer that was waited for, was answered
\* with an empty getdata and ended the wait.
C36_Witness ==
    /\ Handled("inv") /\ Known(last.token)
    /\ is_waiting_for_blocks(pre.peers[last.token])
    /\ Len(last.message.inventory) > 0
    /\ out = <<send_message("getdata", last.token, [inventory |-> <<>>])>>
    /\ ~is_waiting_for_blocks(peers[last.token])
\* An inv from one peer left another peer waiting.
C36_WitnessOtherPeer ==
    /\ Handled("inv") /\ Known(last.token)
    /\ is_waiting_for_blocks(pre.peers[last.token])
    /\ \E t \in DOMAIN peers \ {last.token} : is_waiting_for_blocks(peers[t])


\* The entry point that has just run called get_blocks for a known peer.
C37_Called ==
    /\ \/ last.op \in {"verack", "tx"}
       \/ /\ last.op = "block"
          /\ BlockMessage_deserialize(C9_Body) # None
          /\ Len(C9_Body) = BlockBodyLen
    /\ Known(last.token)
\* The State that get_blocks was called with: what the entry point changed
\* before the call is applied to the State it started from.
C37_Given ==
    [peers |-> IF last.op = "verack"
               THEN [pre.peers EXCEPT ![last.token] = received_verack(@)]
               ELSE pre.peers,
     tx_store |-> IF last.op = "tx"
                  THEN add_tx(pre.tx_store, TxMessage_hash(last.message), last.message)
                  ELSE pre.tx_store,
     block_store |-> IF last.op = "block"
                     THEN add_block(pre.block_store, C9_Body[1], C9_Body)
                     ELSE pre.block_store,
     pending_inv |-> IF last.op = "block"
                     THEN received_data(pre.pending_inv, C9_Body[1])
                     ELSE pre.pending_inv]
\* The peers that get_blocks left: the ping that follows it in a verack is undone.
C37_PeersLeft ==
    IF last.op = "verack"
    THEN [peers EXCEPT ![last.token].ping_time = pre.peers[last.token].ping_time,
                       ![last.token].ping_data = pre.peers[last.token].ping_data]
    ELSE peers
\* C37: when pending_inv.len() <= 100 and the peer is not waiting, get_blocks
\* sets that peer's waiting_for_blocks for 15 seconds and queues exactly one
\* getblocks frame, to that peer, with the protocol version, the block
\* store's current locators and an all-zero hash_stop; it changes no other
\* part of State.
C37_GetBlocks ==
    (/\ C37_Called
     /\ pending_inv_len(C37_Given.pending_inv) <= PendingInvLimit
     /\ ~is_waiting_for_blocks(C37_Given.peers[last.token])) =>
        /\ Cardinality({i \in 1..Len(out) : out[i].frame.command = "getblocks"}) = 1
        /\ \E i \in 1..Len(out) :
              out[i] = send_message("getblocks", last.token,
                           [version |-> 70001,
                            block_locators |-> BlockStore_block_locators(C37_Given.block_store),
                            hash_stop |-> 0])
        /\ C37_PeersLeft =
               [C37_Given.peers EXCEPT ![last.token].waiting_for_blocks =
                   [value |-> TRUE, expires |-> now + 15]]
        /\ tx_store = C37_Given.tx_store
        /\ block_store = C37_Given.block_store
        /\ pending_inv = C37_Given.pending_inv
\* A tx from a peer that was not waited for, with a hash pending, was followed
\* by one getblocks frame and the wait.
C37_Witness ==
    /\ Handled("tx") /\ Known(last.token)
    /\ pending_inv_len(pre.pending_inv) > 0
    /\ pending_inv_len(pre.pending_inv) <= PendingInvLimit
    /\ ~is_waiting_for_blocks(pre.peers[last.token])
    /\ Commands = <<"getblocks">>
    /\ is_waiting_for_blocks(peers[last.token])
\* A block was followed by a getblocks frame whose locators start at that block.
C37_WitnessBlock ==
    /\ Handled("block") /\ C37_Called
    /\ Commands = <<"getblocks">>
    /\ out[1].frame.payload.block_locators[1] = NewBlock1
\* A peer that was waited for until now is asked again.
C37_WitnessExpired ==
    /\ C37_Called
    /\ pre.peers[last.token].waiting_for_blocks.value
    /\ pre.peers[last.token].waiting_for_blocks.expires = now
    /\ \E i \in 1..Len(out) : out[i].frame.command = "getblocks"


\* Thread t is inside its critical section: it has taken the mutex and has
\* neither returned nor panicked.
C38_InSection(run, t) == run[t].pc \notin {"lock", "done", "panicked"} /\ run[t].op # "ping"
\* What holds of the threads and of the channel between any two steps: at most
\* one thread is inside its critical section, and it is the holder of the
\* mutex; a thread that has written to State has locked once; no block hash
\* is requested by two getdata entries; what a thread has sent lies in the
\* channel in the order in which it sent it.
C38_Serial(th, queued) ==
    /\ \A t \in Threads : C38_InSection(th.run, t) => th.mutex = t
    /\ \A t \in Threads : th.run[t].wrote => th.run[t].locks = 1
    /\ \A hash \in C35_Requested(queued) : Cardinality(C35_Requests(queued, hash)) <= 1
    /\ \A t \in Threads :
          LET sent == th.run[t].sent
          IN /\ \A k \in 1..Len(sent) : queued[sent[k].at] = sent[k].frame
             /\ \A k \in 1..(Len(sent) - 1) : sent[k].at < sent[k + 1].at
\* C38: with handlers on several threads, every change of State is made by
\* the thread that holds the State mutex, inside the one critical section of
\* its handler, no other thread leaves its place in a handler in that step,
\* no block hash is requested twice, and the frames of a handler keep their
\* order in the channel.
C38_CriticalSection ==
    [][/\ state_vars' # state_vars =>
             \E t \in Threads :
                 /\ threads.mutex = t
                 /\ C38_InSection(threads.run, t)
                 /\ \A u \in Threads \ {t} : threads'.run[u] = threads.run[u]
       /\ C38_Serial(threads', out')]_vars
\* Two inv handlers that name the same new block hash have both returned, and
\* one of the two getdata frames requests it.
C38_Witness ==
    /\ threads.mutex = 0
    /\ \A t \in {1, 2} :
          /\ Self(t).op = "inv" /\ Self(t).pc = "done"
          /\ \E i \in 1..Len(Self(t).message.inventory) :
                Self(t).message.inventory[i] = B(NewBlock1)
    /\ Self(1).token # Self(2).token
    /\ Self(1).message # Self(2).message
    /\ Len(out) = 2
    /\ Cardinality(C35_Requests(out, NewBlock1)) = 1
\* A thread waits at the mutex while another one is half way through its
\* changes of State.
C38_WitnessWaiting ==
    \E t \in Threads, u \in Threads :
        /\ Self(t).op = "block" /\ Self(t).pc = "add_block"
        /\ Self(u).op = "inv" /\ Self(u).pc = "lock"
\* A pong of a handler that takes no lock lies in the channel between two
\* frames of a verack handler.
C38_WitnessInterleaved ==
    \E t \in Threads, u \in Threads :
        /\ Self(t).op = "verack" /\ Self(t).pc = "done" /\ Len(Self(t).sent) = 3
        /\ Self(u).op = "ping" /\ Self(u).pc = "done"
        /\ Self(t).sent[1].at < Self(u).sent[1].at
        /\ Self(u).sent[1].at < Self(t).sent[3].at
\* A handler has panicked inside its critical section and another thread has
\* panicked at the poisoned mutex.
C38_WitnessPoisoned ==
    /\ poisoned
    /\ \E t \in Threads : Self(t).pc = "panicked" /\ Self(t).locks = 0


\* C40: at every message boundary no block hash is both in the block store
\* and pending in pending_inv (be its entry expired or not).
C40_StoredNotPending ==
    \A hash \in DOMAIN pending_inv : ~has_block(block_store, hash)
\* A block whose hash was pending has been stored, and its entry is gone.
C40_Witness ==
    /\ Handled("block")
    /\ is_pending_inv(pre.pending_inv, NewBlock1)
    /\ ~has_block(pre.block_store, NewBlock1)
    /\ has_block(block_store, NewBlock1)
    /\ NewBlock1 \notin DOMAIN pending_inv
\* An inv has named a stored block and a new one, and only the new one is pending.
C40_WitnessInv ==
    /\ Handled("inv")
    /\ last.message.inventory = <<B(1), B(NewBlock1)>>
    /\ DOMAIN pending_inv = {NewBlock1}
\* With handlers on several threads: a block handler and an inv handler that
\* name the same hash have both returned.
C40_WitnessThreads ==
    /\ threads.mutex = 0
    /\ \E t \in Threads, u \in Threads :
          /\ Self(t).op = "block" /\ Self(t).pc = "done"
          /\ Self(u).op = "inv" /\ Self(u).pc = "done"
    /\ has_block(block_store, NewBlock1)

====
